---- MODULE Spec2Model ----
(***************************************************************************)
(* The inventory message parser (src/inventory_parser.py) as a state       *)
(* machine.  One call of parse(text, config, today) runs the stages        *)
(*   split -> _parse_line (each line) -> _merge_lines                       *)
(*         -> _broadcast_context -> _generate_result                        *)
(* and every stage is one action.                                           *)
(*                                                                          *)
(* Text is modelled at word granularity: a line is a sequence of tokens     *)
(* (a word, a bare integer, a math expression, a date-shaped group of       *)
(* digits, a leading sign, a chat metadata marker).  A regular expression   *)
(* of the source becomes a search over the token sequence; \b boundaries    *)
(* are token boundaries.  A configured name (item, alias, location, verb,   *)
(* container, type) is the sequence of its words.  Python's None is the     *)
(* empty sequence <<>> (None and '' are both falsy in the source).          *)
(*                                                                          *)
(* The vocabulary is ASCII: the branches of the source taken only by short  *)
(* non-ASCII prepositions, type names, alias keys and from-words (lines     *)
(* 259-260, 312-313, 326-327, 369-370) and by filler entries that are       *)
(* regular expressions of the config (line 480) are not reached by it.      *)
(*                                                                          *)
(* A second call of parse on the same input (ParseAgain) may run in a       *)
(* process whose set of container names iterates in another order; the      *)
(* order is the variable setOrder.                                          *)
(***************************************************************************)
EXTENDS Integers, Sequences, FiniteSets, TLC

VARIABLES
    text,               \* the message: its lines, blank ones included
    config,             \* the config dict
    today,              \* the date passed as today
    setOrder,           \* sorted(containers, key=len, reverse=True) in this process
    pc,                 \* the stage parse() is at
    lines,              \* the stripped non-blank lines
    parsed,             \* [_parse_line(line, config) for line in lines]
    merged,             \* what _merge_lines returned
    broadcast,          \* the list after _broadcast_context
    transaction_items,  \* the records of _generate_result that have an item, batched
    rows_of,            \* what _item_to_rows returned for each of them
    result,             \* the ParseResult
    raised,             \* the exception that escaped parse(), "none" if none
    calls,              \* how many times parse() was called on this input
    firstResult,        \* the ParseResult of the first call
    edits,              \* how many commands review_loop (or the web interface) has handled
    cmd                 \* the command review_loop read last, with what was typed for it

vars == <<text, config, today, setOrder, pc, lines, parsed, merged, broadcast,
          transaction_items, rows_of, result, raised, calls, firstResult, edits, cmd>>

(***************************************************************************)
(* Bounds of the model.                                                     *)
(***************************************************************************)
\* longest message (in lines) that Init draws
MaxLines == 3
\* longest message drawn together with a varied config (SpecCfg)
MaxCfgLines == 1
\* number of parse() calls made on the same (text, config, today)
MaxCalls == 2
\* longest message whose result goes to review_loop (SpecReview)
MaxReviewLines == 2
\* number of field edits made in one review_loop
MaxEdits == 2

None == <<>>

(***************************************************************************)
(* Generic sequence helpers.                                                *)
(***************************************************************************)
Range(s) == {s[i] : i \in 1..Len(s)}

\* the least number of a set of positions, 0 for the empty set
MinOr0(S) == IF S = {} THEN 0 ELSE CHOOSE i \in S : \A j \in S : i <= j

\* the value a one-element set holds: binds a value that is computed once
The(S) == CHOOSE x \in S : TRUE

\* s without the elements at positions from..to
RemoveSpan(s, from, to) == SubSeq(s, 1, from - 1) \o SubSeq(s, to + 1, Len(s))

RECURSIVE SelectIdx(_, _, _)
\* the subsequence of s whose positions i satisfy keep[i]
SelectIdx(s, keep, i) ==
    IF i > Len(s) THEN <<>>
    ELSE (IF keep[i] THEN <<s[i]>> ELSE <<>>) \o SelectIdx(s, keep, i + 1)

RECURSIVE Flatten(_)
Flatten(ss) == IF ss = <<>> THEN <<>> ELSE Head(ss) \o Flatten(Tail(ss))

RECURSIVE SumLen(_)
SumLen(ws) == IF ws = <<>> THEN 0 ELSE Len(Head(ws)) + SumLen(Tail(ws))

\* len(name) of a configured name in characters: its words joined by one space
NameLen(name) == IF name = <<>> THEN 0 ELSE SumLen(name) + Len(name) - 1

RECURSIVE InsertByLenDesc(_, _)
\* insert x after every element at least as long: a stable descending sort step
InsertByLenDesc(x, s) ==
    IF s = <<>> THEN <<x>>
    ELSE IF NameLen(Head(s)) >= NameLen(x) THEN <<Head(s)>> \o InsertByLenDesc(x, Tail(s))
    ELSE <<x>> \o s

RECURSIVE SortedByLenDesc(_)
\* sorted(s, key=len, reverse=True): Python's sort is stable, and with
\* reverse=True elements of equal length keep their original order
SortedByLenDesc(s) ==
    IF s = <<>> THEN <<>>
    ELSE InsertByLenDesc(s[Len(s)], SortedByLenDesc(SubSeq(s, 1, Len(s) - 1)))

\* every ordering (without repetition) of the finite set S
Orderings(S) ==
    {o \in [1..Cardinality(S) -> S] : \A i, j \in 1..Cardinality(S) : i # j => o[i] # o[j]}

(***************************************************************************)
(* Tokens.  Every token has the same shape: k its kind, s its text part,    *)
(* a, b, c its digit groups.                                                *)
(*   "w"    a word s                                                        *)
(*   "n"    a bare integer a                                                *)
(*   "x"    a math expression a s b, s the operator ("x" or "*")            *)
(*   "d"    a date-shaped token of digit groups a, b, c; s is its form:     *)
(*          "dot" a.b.c, "slash" a/b/c, "six" aabbcc, "iso" a-b-c           *)
(*   "sign" a leading "+" or "-"                                            *)
(*   "meta" a chat metadata marker such as <Media omitted>                  *)
(*   "j"    what is left of a token once a digit group was cut out of it    *)
(***************************************************************************)
W(s) == [k |-> "w", s |-> s, a |-> 0, b |-> 0, c |-> 0]

N(n) == [k |-> "n", s |-> "", a |-> n, b |-> 0, c |-> 0]

X(op, m, n) == [k |-> "x", s |-> op, a |-> m, b |-> n, c |-> 0]

D(form, g1, g2, g3) == [k |-> "d", s |-> form, a |-> g1, b |-> g2, c |-> g3]

Sign(s) == [k |-> "sign", s |-> s, a |-> 0, b |-> 0, c |-> 0]

Meta == [k |-> "meta", s |-> "<Media omitted>", a |-> 0, b |-> 0, c |-> 0]

Junk(s) == [k |-> "j", s |-> s, a |-> 0, b |-> 0, c |-> 0]

\* str.lower() on the words of the vocabulary that have an upper-case letter
Lower(w) ==
    CASE w = "L" -> "l"
      [] w = "C" -> "c"
      [] w = "Ran" -> "ran"
      [] w = "Serah" -> "serah"
      [] OTHER -> w

LowerName(name) == [i \in 1..Len(name) |-> Lower(name[i])]

\* the separator that joins the digit groups of a date-shaped token
DateSep(form) ==
    CASE form = "dot" -> "."
      [] form = "slash" -> "/"
      [] form = "iso" -> "-"
      [] OTHER -> ""

\* a digit pair of a six-digit date, with its leading zero
Pad2(n) == IF n < 10 THEN "0" \o ToString(n) ELSE ToString(n)

\* the characters of a token
TokStr(t) ==
    CASE t.k = "n" -> ToString(t.a)
      [] t.k = "x" -> ToString(t.a) \o t.s \o ToString(t.b)
      [] t.k = "d" /\ t.s = "six" -> Pad2(t.a) \o Pad2(t.b) \o Pad2(t.c)
      [] t.k = "d" -> ToString(t.a) \o DateSep(t.s) \o ToString(t.b) \o DateSep(t.s) \o ToString(t.c)
      [] OTHER -> t.s

RECURSIVE JoinStr(_)
\* ' '.join(words)
JoinStr(ws) ==
    IF ws = <<>> THEN ""
    ELSE IF Len(ws) = 1 THEN ws[1]
    ELSE ws[1] \o " " \o JoinStr(Tail(ws))

\* the lower-cased text of a token sequence, as str.lower() of the source text
TextLower(toks) == JoinStr([i \in 1..Len(toks) |-> Lower(TokStr(toks[i]))])

\* the lower-cased text of a configured name
NameStr(name) == JoinStr(LowerName(name))

\* the words of a token sequence, lower-cased (text.lower().split())
WordsLower(toks) == [i \in 1..Len(toks) |-> Lower(TokStr(toks[i]))]

\* number of characters of a token matched by [a-zA-Z\u0590-\u05FF]
AlphaCount(t) ==
    CASE t.k = "w" -> (IF t.s = "that's" THEN 5
                       ELSE IF t.s = "warehouse_to_branch" THEN 17
                       ELSE Len(t.s))
      [] t.k = "x" -> (IF t.s = "x" THEN 1 ELSE 0)
      [] OTHER -> 0

RECURSIVE AlphaOfLine(_)
AlphaOfLine(toks) == IF toks = <<>> THEN 0 ELSE AlphaCount(Head(toks)) + AlphaOfLine(Tail(toks))

RECURSIVE CharsOfLine(_)
\* len of a line: its tokens and one space between two tokens
CharsOfLine(toks) ==
    IF toks = <<>> THEN 0
    ELSE Len(TokStr(Head(toks))) + (IF Len(toks) > 1 THEN 1 ELSE 0) + CharsOfLine(Tail(toks))

\* the \b(\d+)\b digit groups of a token, left to right
DigitGroups(t) ==
    CASE t.k = "n" -> <<t.a>>
      [] t.k = "x" -> (IF t.s = "*" THEN <<t.a, t.b>> ELSE <<>>)
      [] t.k = "d" -> (IF t.s = "six" THEN <<t.a * 10000 + t.b * 100 + t.c>> ELSE <<t.a, t.b, t.c>>)
      [] OTHER -> <<>>

\* the token once its first digit group is removed from the text
CutFirstGroup(t) ==
    CASE t.k = "x" -> Junk(t.s \o ToString(t.b))
      [] t.k = "d" /\ t.s # "six" ->
            Junk(DateSep(t.s) \o ToString(t.b) \o DateSep(t.s) \o ToString(t.c))
      [] OTHER -> Junk(t.s)


(***************************************************************************)
(* Configs.  A config is a record; a key the config does not give is not    *)
(* in its domain, and every read goes through CfgGet with the default the   *)
(* source passes to config.get at that place.  Lists and dicts keep their   *)
(* order (a Python dict iterates in insertion order); a dict is a sequence  *)
(* of [key, ...] entries.                                                   *)
(***************************************************************************)
CfgGet(cfg, key, default) == IF key \in DOMAIN cfg THEN cfg[key] ELSE default

StdConfig ==
    [items |-> << <<"cherry", "tomatoes">>, <<"small", "potatoes">>, <<"spaghetti">>,
                  <<"cucumbers">>, <<"carrots">> >>,
     aliases |-> << [key |-> <<"spuds">>, target |-> <<"small", "potatoes">>],
                    [key |-> <<"spaghetti", "noodles">>, target |-> <<"spaghetti">>] >>,
     locations |-> << <<"L">>, <<"C">> >>,
     default_source |-> <<"warehouse">>,
     action_verbs |->
        << [key |-> <<"warehouse_to_branch">>, verbs |-> << <<"passed">>, <<"gave">> >>],
           [key |-> <<"supplier_to_warehouse">>, verbs |-> << <<"received">>, <<"got">> >>],
           [key |-> <<"eaten">>, verbs |-> << <<"eaten">>, <<"used">> >>] >>,
     unit_conversions |->
        << [key |-> <<"cherry", "tomatoes">>,
            convs |-> << [key |-> <<"base_unit">>, factor |-> 1],
                         [key |-> <<"small", "box">>, factor |-> 990],
                         [key |-> <<"box">>, factor |-> 1980] >>],
           [key |-> <<"cucumbers">>,
            convs |-> << [key |-> <<"box">>, factor |-> 10],
                         [key |-> <<"bag">>, factor |-> 5] >>] >>]

\* StdConfig with the optional keys written out
FullConfig ==
    [k \in DOMAIN StdConfig \cup {"transaction_types", "prepositions", "from_words",
                                  "filler_words", "non_zero_sum_types",
                                  "default_transfer_type"} |->
        CASE k = "transaction_types" ->
                << <<"warehouse_to_branch">>, <<"supplier_to_warehouse">>, <<"eaten">> >>
          [] k = "prepositions" -> << [key |-> "to", preps |-> << <<"to">> >>],
                                      [key |-> "from", preps |-> << <<"from">> >>] >>
          [] k = "from_words" -> << <<"from">> >>
          [] k = "filler_words" -> << <<"the">>, <<"of">> >>
          [] k = "non_zero_sum_types" -> {<<"eaten">>}
          [] k = "default_transfer_type" -> <<"warehouse_to_branch">>
          [] OTHER -> StdConfig[k]]

\* parse("...", {}, today)
EmptyConfig == [k \in {} |-> <<>>]

\* cfg without the key k
WithoutKey(cfg, k) == [x \in DOMAIN cfg \ {k} |-> cfg[x]]

\* a conversion row whose container cell is blank, as read_unit_conversions
\* returns it: result[item][container] with container = row[1].strip() = ''
BlankContainerConfig ==
    [StdConfig EXCEPT !.unit_conversions =
        @ \o << [key |-> <<"carrots">>, convs |-> << [key |-> <<>>, factor |-> 12] >>] >>]

\* an alias whose target is a location: _extract_location appends its key to
\* all_locs
LocationAliasConfig ==
    [StdConfig EXCEPT !.aliases = @ \o << [key |-> <<"depot">>, target |-> <<"warehouse">>] >>]

\* the configs the config-varying specification draws from
ConfigVariants ==
    {StdConfig, FullConfig, EmptyConfig, BlankContainerConfig, LocationAliasConfig}
      \cup {WithoutKey(StdConfig, k) : k \in DOMAIN StdConfig}

\* date(2025, 3, 19), the TODAY of the test suite
Today == <<2025, 3, 19>>


(***************************************************************************)
(* The vocabulary of input lines.                                           *)
(***************************************************************************)
\* every line the messages are made of, by name; the text of each is given above it
Lines ==
    [\* "eaten by L 15.3.25"
     Header |-> <<W("eaten"), W("by"), W("L"), D("dot", 15, 3, 25)>>,
     \* "4 cucumbers"
     Cucumbers |-> <<N(4), W("cucumbers")>>,
     \* "passed 2x17 spaghetti noodles to L"
     Passed |-> <<W("passed"), X("x", 2, 17), W("spaghetti"), W("noodles"), W("to"), W("L")>>,
     \* "5 carrots to C 16.3.25"
     ToC |-> <<N(5), W("carrots"), W("to"), W("C"), D("dot", 16, 3, 25)>>,
     \* "7"
     Qty |-> <<N(7)>>,
     \* "cucumber"
     Item |-> <<W("cucumber")>>,
     \* "passed"
     Verb |-> <<W("passed")>>,
     \* "hello there friend"
     Note |-> <<W("hello"), W("there"), W("friend")>>,
     \* "2 box bag cucumbers"
     Tie |-> <<N(2), W("box"), W("bag"), W("cucumbers")>>,
     \* "6 spuds 16.3.25"
     Date2 |-> <<N(6), W("spuds"), D("dot", 16, 3, 25)>>,
     \* "1 spaghetti to warehouse"
     ToWarehouse |-> <<N(1), W("spaghetti"), W("to"), W("warehouse")>>,
     \* "3 carrots from L"
     From |-> <<N(3), W("carrots"), W("from"), W("L")>>,
     \* "got 8 carrots"
     Got |-> <<W("got"), N(8), W("carrots")>>,
     \* "took 5 out of 9 carrots"
     Took |-> <<W("took"), N(5), W("out"), W("of"), N(9), W("carrots")>>,
     \* "4 82 95"
     Numbers |-> <<N(4), N(82), N(95)>>,
     \* "- 3 cucumbers"
     Sign |-> <<Sign("-"), N(3), W("cucumbers")>>,
     \* "<Media omitted>"
     Meta |-> <<Meta>>,
     \* "32.13.25 4 carrots"
     BadDate |-> <<D("dot", 32, 13, 25), N(4), W("carrots")>>,
     \* "half a box cherry tomatoes"
     Half |-> <<W("half"), W("a"), W("box"), W("cherry"), W("tomatoes")>>,
     \* "that's what got from Ran Serah"
     Supplier |-> <<W("that's"), W("what"), W("got"), W("from"), W("Ran"), W("Serah")>>,
     \* "2 small boxes cherry tomatoes"
     Boxes |-> <<N(2), W("small"), W("boxes"), W("cherry"), W("tomatoes")>>,
     \* "3 bags carrots"
     Pending |-> <<N(3), W("bags"), W("carrots")>>,
     \* "3/15/25 150325 2 carrots"
     Dates |-> <<D("slash", 3, 15, 25), D("six", 15, 3, 25), N(2), W("carrots")>>,
     \* "3 box"
     QtyBox |-> <<N(3), W("box")>>,
     \* "carrots"
     ItemCarrots |-> <<W("carrots")>>,
     \* "from L"
     FromL |-> <<W("from"), W("L")>>,
     \* "2 carrots by C"
     ByC |-> <<N(2), W("carrots"), W("by"), W("C")>>,
     \* "2025-11-16 4 carrots"
     Iso |-> <<D("iso", 2025, 11, 16), N(4), W("carrots")>>,
     \* "box cherry tomatoes"
     BoxItem |-> <<W("box"), W("cherry"), W("tomatoes")>>,
     \* "got 8 carrots eaten"
     TwoVerbs |-> <<W("got"), N(8), W("carrots"), W("eaten")>>,
     \* "- 5 cucumbers to L"
     SignTo |-> <<Sign("-"), N(5), W("cucumbers"), W("to"), W("L")>>]

\* the lines of the multi-line messages
LineVocab ==
    {Lines[k] : k \in {"Header", "Cucumbers", "Passed", "ToC", "Qty", "Item", "Verb", "Note",
                       "Tie", "Date2", "From", "Got"}}

\* the lines of the messages that exercise merging, containers and directions
MergeVocab ==
    {Lines[k] : k \in {"Qty", "QtyBox", "Item", "ItemCarrots", "Verb", "Supplier", "Numbers",
                       "Cucumbers", "FromL", "Took", "Note", "ByC", "Pending", "Tie"}}

\* the lines of the messages parsed under a varied config: every line, and the
\* blank line
CfgLineVocab == {Lines[k] : k \in DOMAIN Lines} \cup {<<>>}

\* datetime.date(y, m, d) raises ValueError exactly when this is false
(***************************************************************************)
(* Dates: a date is <<year, month, day>>.                                   *)
(***************************************************************************)
\* date(year, month, day) does not raise ValueError
ValidDate(y, m, d) ==
    LET IsLeap == (y % 4 = 0 /\ y % 100 # 0) \/ y % 400 = 0
        DaysInMonth ==
            CASE m \in {4, 6, 9, 11} -> 30
              [] m = 2 -> (IF IsLeap THEN 29 ELSE 28)
              [] OTHER -> 31
    IN /\ y \in 1..9999
       /\ m \in 1..12
       /\ d \in 1..DaysInMonth

\* year < 100 -> year + 2000
FullYear(y) == IF y < 100 THEN y + 2000 ELSE y

DatePattern(toks, form) ==
    LET
        \* one pattern of _extract_date: re.search finds the first token of the form;
        \* a valid calendar date is returned with the token removed, anything else falls
        \* through (the ValueError of date() is caught)
        DateAt(i, year, month, day) ==
            IF i # 0 /\ ValidDate(year, month, day)
            THEN [date |-> <<year, month, day>>, remaining |-> RemoveSpan(toks, i, i)]
            ELSE [date |-> None, remaining |-> toks]
        DateOf(i, t) ==
            DateAt(i, IF form = "six" THEN t.c + 2000 ELSE FullYear(t.c),
                   IF form = "slash" THEN t.a ELSE t.b,
                   IF form = "slash" THEN t.b ELSE t.a)
        DateIn(i) == DateOf(i, IF i = 0 THEN D(form, 0, 0, 0) ELSE toks[i])
    IN LET IsForm(t) == t.k = "d" /\ t.s = form
       IN DateIn(MinOr0({i \in 1..Len(toks) : IsForm(toks[i])}))

\* the first pattern's date if it found one, else what the later patterns find
DateOrElse(found, later) == IF found.date # None THEN found ELSE later

_extract_date(toks) ==
    DateOrElse(DatePattern(toks, "dot"),
               DateOrElse(DatePattern(toks, "slash"), DatePattern(toks, "six")))

(***************************************************************************)
(* difflib.get_close_matches.  SequenceMatcher(a=x, b=word).ratio() is      *)
(* 2*M/(len(word)+len(x)) with M the number of matched characters; M is     *)
(* tabulated for the word/candidate pairs of the vocabulary that reach the  *)
(* lowest cutoff of the source (0.6); two equal strings match completely.   *)
(***************************************************************************)
\*BEGIN-MATCH-TABLE
\* <<word, candidate, matched characters>>
MatchTable ==
    {<<"- 3 cucumbers", "cucumbers", 9>>,
     <<"- 5 cucumbers", "cucumbers", 9>>,
     <<"- 5 cucumbers l", "cucumbers", 9>>,
     <<"- 5 cucumbers to", "cucumbers", 9>>,
     <<"- 5 cucumbers to l", "cucumbers", 9>>,
     <<"- cucumbers", "cucumbers", 9>>,
     <<"- cucumbers l", "cucumbers", 9>>,
     <<"- cucumbers to", "cucumbers", 9>>,
     <<"- cucumbers to l", "cucumbers", 9>>,
     <<"- to", "to", 2>>,
     <<"-11-16 4 carrots", "carrots", 7>>,
     <<"-11-16 carrots", "carrots", 7>>,
     <<".13.25 4 carrots", "carrots", 7>>,
     <<".13.25 carrots", "carrots", 7>>,
     <<"/15/25 2 carrots", "carrots", 7>>,
     <<"/15/25 carrots", "carrots", 7>>,
     <<"1 spaghetti", "spaghetti", 9>>,
     <<"1 spaghetti", "spaghetti noodles", 9>>,
     <<"1 spaghetti to", "spaghetti", 9>>,
     <<"1 spaghetti to", "spaghetti noodles", 11>>,
     <<"1 spaghetti to warehouse", "spaghetti noodles", 13>>,
     <<"1 spaghetti to warehouse", "supplier_to_warehouse", 14>>,
     <<"1 spaghetti warehouse", "spaghetti", 9>>,
     <<"1 spaghetti warehouse", "spaghetti noodles", 12>>,
     <<"1 spaghetti warehouse", "warehouse", 9>>,
     <<"1 to", "to", 2>>,
     <<"1 to warehouse", "supplier_to_warehouse", 11>>,
     <<"1 to warehouse", "warehouse", 9>>,
     <<"1 warehouse", "warehouse", 9>>,
     <<"1 warehouse", "warehouse_to_branch", 9>>,
     <<"150325 2 carrots", "carrots", 7>>,
     <<"150325 carrots", "carrots", 7>>,
     <<"2 bag", "bag", 3>>,
     <<"2 bag cucumbers", "cucumbers", 9>>,
     <<"2 box", "box", 3>>,
     <<"2 box bag cucumbers", "cucumbers", 9>>,
     <<"2 box cucumbers", "cucumbers", 9>>,
     <<"2 boxes", "box", 3>>,
     <<"2 boxes cherry tomatoes", "cherry tomatoes", 15>>,
     <<"2 boxes tomatoes", "cherry tomatoes", 10>>,
     <<"2 carrots", "carrots", 7>>,
     <<"2 carrots by", "carrots", 7>>,
     <<"2 carrots by c", "carrots", 7>>,
     <<"2 carrots c", "carrots", 7>>,
     <<"2 cherry tomatoes", "cherry tomatoes", 15>>,
     <<"2 cucumbers", "cucumbers", 9>>,
     <<"2 small", "small box", 5>>,
     <<"2 small boxes", "small box", 9>>,
     <<"2 small boxes", "small potatoes", 9>>,
     <<"2 small boxes cherry", "small box", 9>>,
     <<"2 small boxes cherry tomatoes", "cherry tomatoes", 15>>,
     <<"2 small boxes cherry tomatoes", "small potatoes", 13>>,
     <<"2 small boxes tomatoes", "small potatoes", 13>>,
     <<"2 small cherry tomatoes", "cherry tomatoes", 15>>,
     <<"2 small cherry tomatoes", "small potatoes", 12>>,
     <<"2 small tomatoes", "small potatoes", 12>>,
     <<"2 tomatoes", "cherry tomatoes", 9>>,
     <<"2025--16 carrots", "carrots", 7>>,
     <<"2025-11- carrots", "carrots", 7>>,
     <<"2x spaghetti", "spaghetti", 9>>,
     <<"2x spaghetti", "spaghetti noodles", 9>>,
     <<"2x spaghetti l", "spaghetti", 9>>,
     <<"2x spaghetti l", "spaghetti noodles", 11>>,
     <<"2x spaghetti noodles", "spaghetti", 9>>,
     <<"2x spaghetti noodles", "spaghetti noodles", 17>>,
     <<"2x spaghetti noodles l", "spaghetti noodles", 17>>,
     <<"2x spaghetti noodles to", "spaghetti noodles", 17>>,
     <<"2x spaghetti noodles to l", "spaghetti noodles", 17>>,
     <<"2x spaghetti to", "spaghetti", 9>>,
     <<"2x spaghetti to", "spaghetti noodles", 11>>,
     <<"2x spaghetti to l", "spaghetti", 9>>,
     <<"2x spaghetti to l", "spaghetti noodles", 12>>,
     <<"2x17 spaghetti", "spaghetti", 9>>,
     <<"2x17 spaghetti l", "spaghetti", 9>>,
     <<"2x17 spaghetti l", "spaghetti noodles", 11>>,
     <<"2x17 spaghetti noodles", "spaghetti noodles", 17>>,
     <<"2x17 spaghetti noodles l", "spaghetti noodles", 17>>,
     <<"2x17 spaghetti noodles to", "spaghetti noodles", 17>>,
     <<"2x17 spaghetti noodles to l", "spaghetti noodles", 17>>,
     <<"2x17 spaghetti to", "spaghetti", 9>>,
     <<"2x17 spaghetti to", "spaghetti noodles", 11>>,
     <<"2x17 spaghetti to l", "spaghetti", 9>>,
     <<"2x17 spaghetti to l", "spaghetti noodles", 12>>,
     <<"3 bags", "bag", 3>>,
     <<"3 bags carrots", "carrots", 7>>,
     <<"3 box", "box", 3>>,
     <<"3 carrots", "carrots", 7>>,
     <<"3 carrots from", "carrots", 7>>,
     <<"3 carrots from l", "carrots", 7>>,
     <<"3 carrots l", "carrots", 7>>,
     <<"3 cucumbers", "cucumbers", 9>>,
     <<"3 from", "from", 4>>,
     <<"3 from l", "from", 4>>,
     <<"3//25 2 carrots", "carrots", 7>>,
     <<"3//25 carrots", "carrots", 7>>,
     <<"3/15/ 2 carrots", "carrots", 7>>,
     <<"3/15/ carrots", "carrots", 7>>,
     <<"3/15/25 carrots", "carrots", 7>>,
     <<"32..25 4 carrots", "carrots", 7>>,
     <<"32..25 carrots", "carrots", 7>>,
     <<"32.13. 4 carrots", "carrots", 7>>,
     <<"32.13. carrots", "carrots", 7>>,
     <<"32.13.25 carrots", "carrots", 7>>,
     <<"4 carrots", "carrots", 7>>,
     <<"4 cucumbers", "cucumbers", 9>>,
     <<"5 9 carrots", "carrots", 7>>,
     <<"5 carrots", "carrots", 7>>,
     <<"5 carrots .3.25", "carrots", 7>>,
     <<"5 carrots 16..25", "carrots", 7>>,
     <<"5 carrots 16.3.", "carrots", 7>>,
     <<"5 carrots c", "carrots", 7>>,
     <<"5 carrots to", "carrots", 7>>,
     <<"5 carrots to c", "carrots", 7>>,
     <<"5 cucumbers", "cucumbers", 9>>,
     <<"5 cucumbers l", "cucumbers", 9>>,
     <<"5 cucumbers to", "cucumbers", 9>>,
     <<"5 cucumbers to l", "cucumbers", 9>>,
     <<"5 of", "of", 2>>,
     <<"5 of 9 carrots", "carrots", 7>>,
     <<"5 of carrots", "carrots", 7>>,
     <<"5 out 9 carrots", "carrots", 7>>,
     <<"5 out carrots", "carrots", 7>>,
     <<"5 out of carrots", "carrots", 7>>,
     <<"5 to", "to", 2>>,
     <<"6 spuds", "spuds", 5>>,
     <<"8 carrots", "carrots", 7>>,
     <<"8 carrots eaten", "carrots", 7>>,
     <<"8 eaten", "eaten", 5>>,
     <<"9 carrots", "carrots", 7>>,
     <<"a box", "box", 3>>,
     <<"a box", "small box", 5>>,
     <<"a box cherry tomatoes", "cherry tomatoes", 15>>,
     <<"a box tomatoes", "cherry tomatoes", 9>>,
     <<"a cherry tomatoes", "cherry tomatoes", 15>>,
     <<"a tomatoes", "cherry tomatoes", 9>>,
     <<"bag cucumbers", "cucumbers", 9>>,
     <<"bags", "bag", 3>>,
     <<"bags carrots", "carrots", 7>>,
     <<"box bag", "bag", 3>>,
     <<"box bag", "box", 3>>,
     <<"box bag cucumbers", "cucumbers", 9>>,
     <<"box cherry tomatoes", "cherry tomatoes", 15>>,
     <<"box cucumbers", "cucumbers", 9>>,
     <<"box tomatoes", "cherry tomatoes", 9>>,
     <<"boxes", "box", 3>>,
     <<"boxes cherry tomatoes", "cherry tomatoes", 15>>,
     <<"boxes tomatoes", "cherry tomatoes", 10>>,
     <<"carrots .3.25", "carrots", 7>>,
     <<"carrots 16..25", "carrots", 7>>,
     <<"carrots 16.3.", "carrots", 7>>,
     <<"carrots 16.3.25", "carrots", 7>>,
     <<"carrots by", "carrots", 7>>,
     <<"carrots by c", "carrots", 7>>,
     <<"carrots c", "carrots", 7>>,
     <<"carrots c .3.25", "carrots", 7>>,
     <<"carrots c 16..25", "carrots", 7>>,
     <<"carrots c 16.3.", "carrots", 7>>,
     <<"carrots eaten", "carrots", 7>>,
     <<"carrots from", "carrots", 7>>,
     <<"carrots from l", "carrots", 7>>,
     <<"carrots l", "carrots", 7>>,
     <<"carrots to", "carrots", 7>>,
     <<"carrots to .3.25", "carrots", 7>>,
     <<"carrots to 16.3.", "carrots", 7>>,
     <<"carrots to c", "carrots", 7>>,
     <<"cucumber", "cucumbers", 8>>,
     <<"cucumbers l", "cucumbers", 9>>,
     <<"cucumbers to", "cucumbers", 9>>,
     <<"cucumbers to l", "cucumbers", 9>>,
     <<"eaten .3.25", "eaten", 5>>,
     <<"eaten 15.3.", "eaten", 5>>,
     <<"eaten by", "eaten", 5>>,
     <<"eaten by l", "eaten", 5>>,
     <<"eaten l", "eaten", 5>>,
     <<"from l", "from", 4>>,
     <<"from ran", "from", 4>>,
     <<"got 8", "got", 3>>,
     <<"got 8 carrots", "carrots", 7>>,
     <<"got 8 eaten", "eaten", 5>>,
     <<"got carrots", "carrots", 7>>,
     <<"got eaten", "eaten", 5>>,
     <<"got from", "from", 4>>,
     <<"got ran", "got", 3>>,
     <<"half a box", "small box", 6>>,
     <<"half a box cherry tomatoes", "cherry tomatoes", 15>>,
     <<"half a box tomatoes", "small potatoes", 10>>,
     <<"half a cherry tomatoes", "cherry tomatoes", 15>>,
     <<"half a tomatoes", "cherry tomatoes", 10>>,
     <<"half a tomatoes", "small potatoes", 9>>,
     <<"half box", "small box", 6>>,
     <<"half box cherry tomatoes", "cherry tomatoes", 15>>,
     <<"half box tomatoes", "cherry tomatoes", 10>>,
     <<"half box tomatoes", "small potatoes", 10>>,
     <<"half cherry tomatoes", "cherry tomatoes", 15>>,
     <<"half tomatoes", "cherry tomatoes", 10>>,
     <<"half tomatoes", "small potatoes", 9>>,
     <<"of 9", "of", 2>>,
     <<"of 9 carrots", "carrots", 7>>,
     <<"of carrots", "carrots", 7>>,
     <<"out", "got", 2>>,
     <<"out 9 carrots", "carrots", 7>>,
     <<"out carrots", "carrots", 7>>,
     <<"out of 9 carrots", "carrots", 7>>,
     <<"out of carrots", "carrots", 7>>,
     <<"passed", "used", 3>>,
     <<"passed 2x", "passed", 6>>,
     <<"passed 2x l", "passed", 6>>,
     <<"passed 2x noodles", "spaghetti noodles", 11>>,
     <<"passed 2x noodles l", "spaghetti noodles", 11>>,
     <<"passed 2x spaghetti", "spaghetti", 9>>,
     <<"passed 2x spaghetti l", "spaghetti", 9>>,
     <<"passed 2x spaghetti noodles", "spaghetti noodles", 17>>,
     <<"passed 2x spaghetti noodles l", "spaghetti noodles", 17>>,
     <<"passed 2x spaghetti noodles to", "spaghetti noodles", 17>>,
     <<"passed 2x spaghetti noodles to l", "spaghetti noodles", 17>>,
     <<"passed 2x to", "passed", 6>>,
     <<"passed 2x to l", "passed", 6>>,
     <<"passed 2x17", "passed", 6>>,
     <<"passed 2x17 l", "passed", 6>>,
     <<"passed 2x17 noodles", "spaghetti noodles", 11>>,
     <<"passed 2x17 spaghetti", "spaghetti", 9>>,
     <<"passed 2x17 spaghetti noodles", "spaghetti noodles", 17>>,
     <<"passed 2x17 spaghetti noodles l", "spaghetti noodles", 17>>,
     <<"passed 2x17 spaghetti noodles to", "spaghetti noodles", 17>>,
     <<"passed 2x17 spaghetti noodles to l", "spaghetti noodles", 17>>,
     <<"passed 2x17 to", "passed", 6>>,
     <<"passed l", "passed", 6>>,
     <<"passed noodles", "passed", 6>>,
     <<"passed noodles", "spaghetti noodles", 11>>,
     <<"passed noodles l", "spaghetti noodles", 11>>,
     <<"passed noodles to", "spaghetti noodles", 11>>,
     <<"passed noodles to l", "spaghetti noodles", 11>>,
     <<"passed spaghetti", "spaghetti", 9>>,
     <<"passed spaghetti l", "spaghetti", 9>>,
     <<"passed spaghetti l", "spaghetti noodles", 11>>,
     <<"passed spaghetti noodles", "spaghetti noodles", 17>>,
     <<"passed spaghetti noodles l", "spaghetti noodles", 17>>,
     <<"passed spaghetti noodles to", "spaghetti noodles", 17>>,
     <<"passed spaghetti noodles to l", "spaghetti noodles", 17>>,
     <<"passed spaghetti to", "spaghetti", 9>>,
     <<"passed spaghetti to", "spaghetti noodles", 11>>,
     <<"passed spaghetti to l", "spaghetti", 9>>,
     <<"passed spaghetti to l", "spaghetti noodles", 12>>,
     <<"passed to", "passed", 6>>,
     <<"passed to l", "passed", 6>>,
     <<"passed x17", "passed", 6>>,
     <<"passed x17 l", "passed", 6>>,
     <<"passed x17 noodles", "spaghetti noodles", 11>>,
     <<"passed x17 spaghetti", "spaghetti", 9>>,
     <<"passed x17 spaghetti noodles", "spaghetti noodles", 17>>,
     <<"passed x17 spaghetti noodles l", "spaghetti noodles", 17>>,
     <<"passed x17 spaghetti noodles to", "spaghetti noodles", 17>>,
     <<"passed x17 spaghetti noodles to l", "spaghetti noodles", 17>>,
     <<"passed x17 to", "passed", 6>>,
     <<"small", "small box", 5>>,
     <<"small boxes", "small box", 9>>,
     <<"small boxes", "small potatoes", 9>>,
     <<"small boxes cherry", "small box", 9>>,
     <<"small boxes cherry tomatoes", "cherry tomatoes", 15>>,
     <<"small boxes cherry tomatoes", "small potatoes", 13>>,
     <<"small boxes tomatoes", "small box", 9>>,
     <<"small boxes tomatoes", "small potatoes", 13>>,
     <<"small cherry tomatoes", "cherry tomatoes", 15>>,
     <<"small cherry tomatoes", "small potatoes", 12>>,
     <<"small tomatoes", "cherry tomatoes", 9>>,
     <<"small tomatoes", "small box", 7>>,
     <<"small tomatoes", "small potatoes", 12>>,
     <<"spaghetti", "spaghetti noodles", 9>>,
     <<"spaghetti l", "spaghetti", 9>>,
     <<"spaghetti l", "spaghetti noodles", 11>>,
     <<"spaghetti noodles", "spaghetti", 9>>,
     <<"spaghetti noodles l", "spaghetti", 9>>,
     <<"spaghetti noodles l", "spaghetti noodles", 17>>,
     <<"spaghetti noodles to", "spaghetti", 9>>,
     <<"spaghetti noodles to", "spaghetti noodles", 17>>,
     <<"spaghetti noodles to l", "spaghetti noodles", 17>>,
     <<"spaghetti to", "spaghetti", 9>>,
     <<"spaghetti to", "spaghetti noodles", 11>>,
     <<"spaghetti to l", "spaghetti", 9>>,
     <<"spaghetti to l", "spaghetti noodles", 12>>,
     <<"spaghetti to warehouse", "spaghetti noodles", 13>>,
     <<"spaghetti to warehouse", "supplier_to_warehouse", 14>>,
     <<"spaghetti warehouse", "spaghetti", 9>>,
     <<"spaghetti warehouse", "spaghetti noodles", 12>>,
     <<"spaghetti warehouse", "supplier_to_warehouse", 12>>,
     <<"spaghetti warehouse", "warehouse", 9>>,
     <<"spuds .3.25", "spuds", 5>>,
     <<"spuds 16.3.", "spuds", 5>>,
     <<"there", "the", 3>>,
     <<"to c", "to", 2>>,
     <<"to l", "to", 2>>,
     <<"to warehouse", "supplier_to_warehouse", 11>>,
     <<"to warehouse", "warehouse", 9>>,
     <<"tomatoes", "cherry tomatoes", 8>>,
     <<"took", "to", 2>>,
     <<"took 5 9 carrots", "carrots", 7>>,
     <<"took 5 carrots", "carrots", 7>>,
     <<"took 9 carrots", "carrots", 7>>,
     <<"took carrots", "carrots", 7>>,
     <<"took of carrots", "carrots", 7>>,
     <<"took out carrots", "carrots", 7>>,
     <<"warehouse", "supplier_to_warehouse", 9>>,
     <<"warehouse", "warehouse_to_branch", 9>>,
     <<"what from", "from", 4>>,
     <<"x17 spaghetti", "spaghetti", 9>>,
     <<"x17 spaghetti", "spaghetti noodles", 9>>,
     <<"x17 spaghetti l", "spaghetti", 9>>,
     <<"x17 spaghetti l", "spaghetti noodles", 11>>,
     <<"x17 spaghetti noodles", "spaghetti", 9>>,
     <<"x17 spaghetti noodles", "spaghetti noodles", 17>>,
     <<"x17 spaghetti noodles l", "spaghetti noodles", 17>>,
     <<"x17 spaghetti noodles to", "spaghetti noodles", 17>>,
     <<"x17 spaghetti noodles to l", "spaghetti noodles", 17>>,
     <<"x17 spaghetti to", "spaghetti", 9>>,
     <<"x17 spaghetti to", "spaghetti noodles", 11>>,
     <<"x17 spaghetti to l", "spaghetti", 9>>,
     <<"x17 spaghetti to l", "spaghetti noodles", 12>>}
\*END-MATCH-TABLE

MatchCount(word, x) ==
    IF word = x THEN Len(x)
    ELSE The({IF hits = {} THEN 0 ELSE The(hits)[3] :
              hits \in {{e \in MatchTable : e[1] = word /\ e[2] = x}}})

\* ratio(word, x) >= pct/100
RatioAtLeast(word, x, pct) ==
    /\ Len(word) + Len(x) > 0
    /\ 200 * MatchCount(word, x) >= pct * (Len(word) + Len(x))

get_close_matches(word, possibilities, pct) ==
    LET
        \* ratio(word, x) > ratio(word, y)
        RatioGreater(x, y) ==
            MatchCount(word, x) * (Len(word) + Len(y)) > MatchCount(word, y) * (Len(word) + Len(x))
        \* get_close_matches(word, possibilities, n=1, cutoff=pct/100): <<best>> or <<>>
        BestOf(close) ==
            IF close = {} THEN <<>>
            ELSE <<CHOOSE x \in close : \A y \in close : ~RatioGreater(y, x)>>
    IN BestOf({x \in Range(possibilities) : RatioAtLeast(word, x, pct)})

(***************************************************************************)
(* Matching a configured name in a token sequence.                          *)
(***************************************************************************)
\* the name's words are the tokens at positions i .. i+Len(name)-1 (IGNORECASE)
NameAt(toks, i, name) ==
    /\ name # <<>>
    /\ i >= 1
    /\ i + Len(name) - 1 <= Len(toks)
    /\ \A j \in 1..Len(name) : Lower(TokStr(toks[i + j - 1])) = Lower(name[j])

\* re.search(r'\bname\b', text): position of the leftmost occurrence, 0 if none
FindName(toks, name) == MinOr0({i \in 1..Len(toks) : NameAt(toks, i, name)})

\* the first element of a selection, as <<element>>, or <<>>
FirstOf(sel) == IF sel = <<>> THEN <<>> ELSE <<sel[1]>>

\* the keys of a dict, in iteration order
Keys(dict) == [i \in 1..Len(dict) |-> dict[i].key]

\* dict.get(key): the entry of that key as <<entry>>, or <<>>
Entry(dict, key) ==
    LET Is(e) == e.key = key IN FirstOf(SelectSeq(dict, Is))

(***************************************************************************)
(* _extract_location                                                        *)
(***************************************************************************)
DefaultPrepositions ==
    << [key |-> "to", preps |-> << <<"to">>, <<"into">> >>],
       [key |-> "by", preps |-> << <<"by">> >>],
       [key |-> "from", preps |-> << <<"from">> >> ] >>

\* locations + [default_source] unless it is one of them
BaseLocs(cfg) ==
    LET locations == CfgGet(cfg, "locations", <<>>)
        default_source == CfgGet(cfg, "default_source", <<"warehouse">>)
    IN locations \o (IF default_source \in Range(locations) THEN <<>> ELSE <<default_source>>)

\* an alias whose target is a known location
IsLocAlias(cfg, al) ==
    \E l \in Range(BaseLocs(cfg)) : al.target = l \/ LowerName(al.target) = LowerName(l)

RECURSIVE AppendLocAliases(_, _, _)
\* all_locs after the alias loop: the key of every location alias is appended
\* once (the list that is extended is a fresh one, not config['locations'])
AppendLocAliases(cfg, all_locs, aliases) ==
    IF aliases = <<>> THEN all_locs
    ELSE LET al == Head(aliases)
             next == IF IsLocAlias(cfg, al) /\ al.key \notin Range(all_locs)
                     THEN Append(all_locs, al.key) ELSE all_locs
         IN AppendLocAliases(cfg, next, Tail(aliases))

AllLocs(cfg) == AppendLocAliases(cfg, BaseLocs(cfg), CfgGet(cfg, "aliases", <<>>))

\* all_locs is the very list of the config: what the alias loop appends is
\* in config['locations'] too
LocationListsShared(cfg) == [locations |-> AllLocs(cfg), all_locs |-> AllLocs(cfg)]

\* the two lists of _extract_location after its alias loop: locations, which
\* is the list of the config, and all_locs, which locations + [...] built as a
\* list of its own, so that the appends reach all_locs only
LocationLists(cfg) ==
    [locations |-> CfgGet(cfg, "locations", <<>>), all_locs |-> AllLocs(cfg)]

\* loc_alias_map.get(loc, loc)
CanonicalLoc(cfg, loc) ==
    LET Is(al) == al.key = loc /\ IsLocAlias(cfg, al)
    IN The({IF hit = <<>> THEN loc ELSE hit[1].target :
            hit \in {FirstOf(SelectSeq(CfgGet(cfg, "aliases", <<>>), Is))}})

\* the span matched by \bprep\s+(?:the\s+)?loc\b whose preposition is at i:
\* [from, to], to = 0 when there is no match at i
PrepLocAt(toks, i, prep, loc) ==
    CASE prep # <<>> /\ NameAt(toks, i, prep \o <<"the">> \o loc) ->
            [from |-> i, to |-> i + Len(prep) + Len(loc)]
      [] prep # <<>> /\ NameAt(toks, i + Len(prep), loc) /\ NameAt(toks, i, prep) ->
            [from |-> i, to |-> i + Len(prep) + Len(loc) - 1]
      [] OTHER -> [from |-> i, to |-> 0]

\* re.search of the preposition pattern: the leftmost match, to = 0 if none
FindPrepLoc(toks, prep, loc) ==
    The({IF i = 0 THEN [from |-> 0, to |-> 0] ELSE PrepLocAt(toks, i, prep, loc) :
         i \in {MinOr0({j \in 1..Len(toks) : PrepLocAt(toks, j, prep, loc).to # 0})}})

\* the (loc, direction, prep) triples in the order the three nested loops try them
PrepLocTries(cfg) ==
    LET ForDir(loc, d, preps) ==
            [i \in 1..Len(preps) |-> [loc |-> loc, direction |-> d.key, prep |-> preps[i]]]
        ForLoc(loc, prep_config) ==
            Flatten([j \in 1..Len(prep_config) |->
                        ForDir(loc, prep_config[j], SortedByLenDesc(prep_config[j].preps))])
        ForLocs(locs) ==
            Flatten([i \in 1..Len(locs) |->
                        ForLoc(locs[i], CfgGet(cfg, "prepositions", DefaultPrepositions))])
    IN ForLocs(SortedByLenDesc(AllLocs(cfg)))

RECURSIVE CloseWordFrom(_, _, _)
\* the loop of a fuzzy fallback over text.split(): the first word longer than
\* two characters that has a close match, as <<[i, match]>>, or <<>>
CloseWordFrom(words, targets, i) ==
    LET
        \* cutoff of the single-word fuzzy fallbacks: 0.85 if len(w) <= 4 else 0.75
        WordCutoff(w) == IF Len(w) <= 4 THEN 85 ELSE 75
    IN IF i > Len(words) THEN <<>>
       ELSE The({IF Len(words[i]) > 2 /\ m # <<>>
                 THEN <<[i |-> i, match |-> m[1]]>>
                 ELSE CloseWordFrom(words, targets, i + 1) :
                 m \in {get_close_matches(words[i], targets, WordCutoff(words[i]))}})

\* the fuzzy fallback of _extract_location over the words of the text
FuzzyLocation(toks, cfg) ==
    LET IsMulti(l) == NameLen(l) > 2
        Found(multi_char_locs, hit) ==
            LET Is(l) == NameStr(l) = hit.match
            IN [location |-> CanonicalLoc(cfg, FirstOf(SelectSeq(multi_char_locs, Is))[1]),
                direction |-> "to",
                remaining |-> RemoveSpan(toks, hit.i, hit.i)]
        Among(multi_char_locs) ==
            The({IF hit = <<>>
                 THEN [location |-> None, direction |-> "none", remaining |-> toks]
                 ELSE Found(multi_char_locs, hit[1]) :
                 hit \in {CloseWordFrom(WordsLower(toks),
                                        [i \in 1..Len(multi_char_locs) |-> NameStr(multi_char_locs[i])],
                                        1)}})
    IN Among(SelectSeq(AllLocs(cfg), IsMulti))

_extract_location(toks, cfg) ==
    LET Hit(t) == FindPrepLoc(toks, t.prep, t.loc).to # 0
        Found(t, m) == [location |-> CanonicalLoc(cfg, t.loc),
                        direction |-> t.direction,
                        remaining |-> RemoveSpan(toks, m.from, m.to)]
    IN The({IF first = <<>> THEN FuzzyLocation(toks, cfg)
            ELSE Found(first[1], FindPrepLoc(toks, first[1].prep, first[1].loc)) :
            first \in {FirstOf(SelectSeq(PrepLocTries(cfg), Hit))}})

(***************************************************************************)
(* _extract_verb                                                            *)
(***************************************************************************)
\* the names of seq (sorted by the caller) with the position of each in toks
FirstFound(toks, names) ==
    LET Hit(n) == FindName(toks, n) # 0 IN FirstOf(SelectSeq(names, Hit))

\* the match of a verb pass: the type, and the text without the name found
VerbFound(toks, trans_type, name, i) ==
    [trans_type |-> trans_type, remaining |-> RemoveSpan(toks, i, i + Len(name) - 1)]

\* a verb pass that found nothing
NoVerb(toks) == [trans_type |-> None, remaining |-> toks]

\* aliases whose target is a transaction type
TypeAliases(cfg) ==
    LET tt_set == {LowerName(t) : t \in Range(CfgGet(cfg, "transaction_types", <<>>))}
        Is(al) == LowerName(al.target) \in tt_set
    IN SelectSeq(CfgGet(cfg, "aliases", <<>>), Is)

\* all_verbs: verb text -> type, a dict filled in this order (a later entry of
\* the same key replaces the value and keeps the key's place)
AllVerbs(cfg) ==
    LET OfType(e) == [i \in 1..Len(e.verbs) |-> [key |-> NameStr(e.verbs[i]), type |-> e.key]]
        FromVerbs(action_verbs) == Flatten([i \in 1..Len(action_verbs) |-> OfType(action_verbs[i])])
        FromTypes(tts) == [i \in 1..Len(tts) |-> [key |-> NameStr(tts[i]), type |-> tts[i]]]
        FromAliases(als) ==
            [i \in 1..Len(als) |-> [key |-> NameStr(als[i].key), type |-> als[i].target]]
    IN FromVerbs(CfgGet(cfg, "action_verbs", <<>>))
         \o FromTypes(CfgGet(cfg, "transaction_types", <<>>))
         \o FromAliases(TypeAliases(cfg))

\* all_verbs[key]: the value written last
VerbType(cfg, key) ==
    LET Last(all) == CHOOSE i \in 1..Len(all) :
                        all[i].key = key /\ \A j \in (i + 1)..Len(all) : all[j].key # key
        Of(all) == all[Last(all)].type
    IN Of(AllVerbs(cfg))

\* the first pass that finds a type, else what the later passes find
VerbOrElse(found, later) == IF found.trans_type # None THEN found ELSE later

_extract_verb(toks, cfg) ==
    LET
        \* first pass: the types of action_verbs in dict order, the verbs of one type longest first
        VerbByActionVerbs ==
            LET Hit(e) == FirstFound(toks, SortedByLenDesc(e.verbs)) # <<>>
                Found(e, verb) == VerbFound(toks, e.key, verb, FindName(toks, verb))
            IN The({IF first = <<>> THEN NoVerb(toks)
                    ELSE Found(first[1], FirstFound(toks, SortedByLenDesc(first[1].verbs))[1]) :
                    first \in {FirstOf(SelectSeq(CfgGet(cfg, "action_verbs", <<>>), Hit))}})
        \* second pass: a transaction type named directly, longest first
        VerbByTypeName ==
            The({IF first = <<>> THEN NoVerb(toks)
                 ELSE VerbFound(toks, first[1], first[1], FindName(toks, first[1])) :
                 first \in {FirstFound(toks, SortedByLenDesc(CfgGet(cfg, "transaction_types", <<>>)))}})
        \* third pass: an alias of a transaction type, longest key first
        VerbByAlias ==
            LET Among(als) ==
                    The({IF first = <<>> THEN NoVerb(toks)
                         ELSE VerbFound(toks, Entry(als, first[1])[1].target, first[1],
                                        FindName(toks, first[1])) :
                         first \in {FirstFound(toks, SortedByLenDesc(Keys(als)))}})
            IN Among(TypeAliases(cfg))
        \* last pass: each word longer than two characters, fuzzily, against all_verbs
        VerbByFuzzy ==
            The({IF hit = <<>> THEN NoVerb(toks)
                 ELSE [trans_type |-> VerbType(cfg, hit[1].match),
                       remaining |-> RemoveSpan(toks, hit[1].i, hit[1].i)] :
                 hit \in {CloseWordFrom(WordsLower(toks), Keys(AllVerbs(cfg)), 1)}})
    IN VerbOrElse(VerbByActionVerbs,
                  VerbOrElse(VerbByTypeName,
                             VerbOrElse(VerbByAlias, VerbByFuzzy)))

(***************************************************************************)
(* _extract_supplier_info                                                   *)
(***************************************************************************)
\* any(w in remaining.lower() for w in from_words)
HasFromWord(toks, cfg) ==
    \E w \in Range(CfgGet(cfg, "from_words", << <<"from">> >>)) : FindName(toks, w) # 0

\* \bword\s+(.+?)\s*$ : the leftmost from-word that has text after it
FindFromWord(toks, word) ==
    MinOr0({i \in 1..Len(toks) : NameAt(toks, i, word) /\ i + Len(word) <= Len(toks)})

_extract_supplier_info(toks, cfg) ==
    LET all_locs == {NameStr(l) : l \in Range(CfgGet(cfg, "locations", <<>>))}
                        \cup {NameStr(CfgGet(cfg, "default_source", <<"warehouse">>))}
        SupplierAt(w, i) == SubSeq(toks, i + Len(w), Len(toks))
        HitAt(w, i) == i # 0 /\ TextLower(SupplierAt(w, i)) \notin all_locs
        Hit(w) == HitAt(w, FindFromWord(toks, w))
        Texts(supplier) == [i \in 1..Len(supplier) |-> TokStr(supplier[i])]
        Found(w, i) == [supplier |-> Texts(SupplierAt(w, i)), remaining |-> SubSeq(toks, 1, i - 1)]
    IN The({IF first = <<>> THEN [supplier |-> None, remaining |-> toks]
            ELSE Found(first[1], FindFromWord(toks, first[1])) :
            first \in {FirstOf(SelectSeq(CfgGet(cfg, "from_words", << <<"from">> >>), Hit))}})

(***************************************************************************)
(* Quantities.  A quantity is the fraction <<numerator, denominator>> in     *)
(* lowest terms with denominator 1 or 2 ("half a box" is 0.5).              *)
(***************************************************************************)
Q(n) == <<n, 1>>

QHalf == <<1, 2>>

QNorm(n, d) == IF d = 2 /\ n % 2 = 0 THEN <<n \div 2, 1>> ELSE <<n, d>>

\* qty * factor
QMul(q, factor) == QNorm(q[1] * factor, q[2])

QAbs(q) == <<IF q[1] < 0 THEN -q[1] ELSE q[1], q[2]>>

\* the negation left out
QNegKept(q) == q

\* -q
QNeg(q) == <<-q[1], q[2]>>

(***************************************************************************)
(* Containers                                                               *)
(***************************************************************************)
RECURSIVE UnionOf(_)
UnionOf(sets) == IF sets = <<>> THEN {} ELSE Head(sets) \cup UnionOf(Tail(sets))

\* the set of container names of the conversions table
get_all_containers(cfg) ==
    LET unit_conversions == CfgGet(cfg, "unit_conversions", <<>>)
        Of(e) == {c.key : c \in Range(e.convs)} \ {<<"base_unit">>}
    IN UnionOf([i \in 1..Len(unit_conversions) |-> Of(unit_conversions[i])])

\* an alias whose target is a container
IsContAlias(cfg, al) ==
    LowerName(al.target) \in {LowerName(c) : c \in get_all_containers(cfg)}

\* containers of _extract_container: a Python set, the aliases of containers added
ContainerSet(cfg) ==
    get_all_containers(cfg)
        \cup {al.key : al \in {a \in Range(CfgGet(cfg, "aliases", <<>>)) : IsContAlias(cfg, a)}}

\* sorted(containers, key=len, reverse=True) for every iteration order the set
\* can have: the order of a set of strings depends on the process's string
\* hashing, and the stable sort keeps it among names of equal length
ContainerOrders(cfg) == {SortedByLenDesc(o) : o \in Orderings(ContainerSet(cfg))}

\* cont_alias_map.get(cont, cont)
CanonicalCont(cfg, cont) ==
    LET Is(al) == al.key = cont /\ IsContAlias(cfg, al)
    IN The({IF hit = <<>> THEN cont ELSE hit[1].target :
            hit \in {FirstOf(SelectSeq(CfgGet(cfg, "aliases", <<>>), Is))}})

\* the container and its English plural; container.split()[-1] raises IndexError
\* when the name has no word
_container_variants(container) ==
    LET
        \* last.endswith(('x', 's', 'sh', 'ch')) for the container words of the vocabulary
        EndsSibilant(w) == w \in {"box"}
    IN LET Plural(last) == IF EndsSibilant(last) THEN last \o "es" ELSE last \o "s"
       IN IF container = <<>> THEN [raises |-> TRUE, variants |-> <<>>]
          ELSE [raises |-> FALSE,
                variants |-> <<container,
                               [container EXCEPT ![Len(container)] = Plural(@)]>>]

RECURSIVE ContainerLoop(_, _, _)
\* the loop over the sorted containers: the first variant found wins (at the
\* start of the text, else anywhere in it); a container without words raises
\* before it is tried
ContainerLoop(toks, cfg, order) ==
    LET Hit(v) == NameAt(toks, 1, v) \/ FindName(toks, v) # 0
        Found(cont, v, i) == [container |-> CanonicalCont(cfg, cont),
                              remaining |-> RemoveSpan(toks, i, i + Len(v) - 1),
                              raises |-> FALSE]
        Try(cont, first) ==
            IF first = <<>> THEN ContainerLoop(toks, cfg, Tail(order))
            ELSE Found(cont, first[1], FindName(toks, first[1]))
        Variants(cont, vs) ==
            IF vs.raises THEN [container |-> None, remaining |-> toks, raises |-> TRUE]
            ELSE Try(cont, FirstOf(SelectSeq(vs.variants, Hit)))
    IN IF order = <<>> THEN [container |-> None, remaining |-> toks, raises |-> FALSE]
       ELSE Variants(Head(order), _container_variants(Head(order)))

_extract_container(toks, cfg, order) == ContainerLoop(toks, cfg, order)

\* convs.get(container) of unit_conversions.get(item, {}): <<factor>> or <<>>
ConversionFactor(cfg, item, container) ==
    LET Factor(factor) == IF factor = <<>> THEN <<>> ELSE <<factor[1].factor>>
        Of(convs) == IF convs = <<>> THEN <<>> ELSE Factor(Entry(convs[1].convs, container))
    IN Of(Entry(CfgGet(cfg, "unit_conversions", <<>>), item))

\* qty * factor, or None without a factor
_convert_container(item, container, qty, cfg) ==
    LET Times(factor) == IF factor # <<>> THEN QMul(qty, factor[1]) ELSE None
    IN Times(ConversionFactor(cfg, item, container))

(***************************************************************************)
(* _extract_qty                                                             *)
(***************************************************************************)
_extract_qty(toks, cfg, order) ==
    LET
        \* \bhalf\s+a\s+ : "half" "a" and text after them
        FindHalfA ==
            MinOr0({i \in 1..Len(toks) : NameAt(toks, i, <<"half", "a">>) /\ i + 2 <= Len(toks)})
        IsMath(t) == t.k = "x"
        HasDigits(t) == DigitGroups(t) # <<>>
        \* the text once the first digit group of token i is cut out
        CutNumber(i) ==
            IF toks[i].k = "n" \/ (toks[i].k = "d" /\ toks[i].s = "six") THEN RemoveSpan(toks, i, i)
            ELSE [toks EXCEPT ![i] = CutFirstGroup(toks[i])]
    IN LET NoQty == [qty |-> None, container |-> None, remaining |-> toks, raises |-> FALSE]
           \* qty with the container found in the text once the number is cut out
           WithContainer(qty, c) ==
               [qty |-> qty, container |-> c.container, remaining |-> c.remaining,
                raises |-> c.raises]
           Number(n) ==
               IF n = 0 THEN NoQty
               ELSE WithContainer(Q(DigitGroups(toks[n])[1]),
                                  _extract_container(CutNumber(n), cfg, order))
           Math(m) ==
               IF m = 0 THEN Number(MinOr0({i \in 1..Len(toks) : HasDigits(toks[i])}))
               ELSE WithContainer(Q(toks[m].a * toks[m].b),
                                  _extract_container(RemoveSpan(toks, m, m), cfg, order))
           HalfA(h, half) ==
               IF half.raises THEN [NoQty EXCEPT !.raises = TRUE]
               ELSE IF half.container # None
               THEN [qty |-> QHalf, container |-> half.container,
                     remaining |-> SubSeq(toks, 1, h - 1) \o half.remaining, raises |-> FALSE]
               ELSE Math(MinOr0({i \in 1..Len(toks) : IsMath(toks[i])}))
           Half(h) ==
               IF h = 0 THEN Math(MinOr0({i \in 1..Len(toks) : IsMath(toks[i])}))
               ELSE HalfA(h, _extract_container(SubSeq(toks, h + 2, Len(toks)), cfg, order))
       IN Half(FindHalfA)

(***************************************************************************)
(* _remove_filler                                                           *)
(***************************************************************************)
\* _DEFAULT_FILLER
DefaultFiller ==
    << <<"that's">>, <<"what">>, <<"the">>, <<"of">>, <<"a">>, <<"an">>, <<"some">>, <<"via">> >>

RECURSIVE RemoveAll(_, _)
\* re.sub(r'\bword\b', '', text): every occurrence goes
RemoveAll(toks, word) ==
    The({IF i = 0 THEN toks ELSE RemoveAll(RemoveSpan(toks, i, i + Len(word) - 1), word) :
         i \in {FindName(toks, word)}})

RECURSIVE RemoveFillers(_, _)
RemoveFillers(toks, filler) ==
    IF filler = <<>> THEN toks ELSE RemoveFillers(RemoveAll(toks, Head(filler)), Tail(filler))

\* what re.sub(r'\s+', ' ', text).strip() leaves of a token with no text
NonEmptyTok(t) == TokStr(t) # ""

_remove_filler(toks, cfg) ==
    SelectSeq(RemoveFillers(toks, CfgGet(cfg, "filler_words", DefaultFiller)), NonEmptyTok)


(***************************************************************************)
(* _match_item                                                              *)
(***************************************************************************)
\*BEGIN-ITEM-TABLES
\* <<text_lower, il>>
PluralTable ==
    {<<"bag", "bag">>,
     <<"bags", "bag">>,
     <<"box", "box">>,
     <<"c", "c">>,
     <<"carrots", "carrots">>,
     <<"cherry tomatoes", "cherry tomatoes">>,
     <<"cucumber", "cucumbers">>,
     <<"cucumbers", "cucumbers">>,
     <<"eaten", "eaten">>,
     <<"from", "from">>,
     <<"got", "got">>,
     <<"l", "l">>,
     <<"of", "of">>,
     <<"passed", "passed">>,
     <<"spaghetti", "spaghetti">>,
     <<"spaghetti noodles", "spaghetti noodles">>,
     <<"spuds", "spuds">>,
     <<"to", "to">>,
     <<"warehouse", "warehouse">>}

\* <<text_lower, il>>
PrefixTable ==
    {<<"c", "carrots">>,
     <<"c", "cherry tomatoes">>,
     <<"c", "cucumbers">>,
     <<"cherry", "cherry tomatoes">>,
     <<"cucumber", "cucumbers">>,
     <<"small", "small box">>,
     <<"small", "small potatoes">>,
     <<"spaghetti", "spaghetti noodles">>,
     <<"warehouse", "warehouse_to_branch">>}
\*END-ITEM-TABLES

\* tl = text_lower.rstrip('s'); tl == il or tl == il.rstrip('s'), tabulated for
\* the texts of the vocabulary as <<text_lower, il>>
PluralEqual(text_lower, il) == <<text_lower, il>> \in PluralTable

\* il.startswith(text_lower), tabulated for the texts of the vocabulary
StartsWith(il, text_lower) == il = text_lower \/ <<text_lower, il>> \in PrefixTable

\* the first result that is a match, else the result of the later steps
ItemOrElse(found, later) == IF found.item # None THEN found ELSE later

\* no item
NoItem == [item |-> None, raw |-> ""]

\* the canonical name behind a fuzzy hit: an alias key first, then an item
_resolve_match(match_lower, items, aliases) ==
    LET IsAlias(al) == NameStr(al.key) = match_lower
        IsItem(it) == NameStr(it) = match_lower
        Item(item) == IF item # <<>> THEN item[1] ELSE None
        Alias(alias) == IF alias # <<>> THEN alias[1].target ELSE Item(FirstOf(SelectSeq(items, IsItem)))
    IN Alias(FirstOf(SelectSeq(aliases, IsAlias)))

\* cutoff of the item fuzzy match: 0.8 if len(text) <= 4 else 0.6
ItemCutoff(str) == IF Len(str) <= 4 THEN 80 ELSE 60

\* all_targets: the lower-cased items, then the lower-cased alias keys
ItemTargets(items, aliases) ==
    [i \in 1..Len(items) |-> NameStr(items[i])]
        \o [i \in 1..Len(aliases) |-> NameStr(aliases[i].key)]

\* the (start, length) word spans in the order of the two loops of step 6
SpanOrder(nwords) ==
    LET
        Min2(a, b) == IF a <= b THEN a ELSE b
    IN LET OfLen(k) == [i \in 1..(nwords - k + 1) |-> [start |-> i, len |-> k]]
           top == Min2(nwords, 4)
       IN Flatten([j \in 1..top |-> OfLen(top + 1 - j)])

\* what step 6 finds for one span: [item, raw], item = None when nothing matches
SpanMatch(span, items, aliases) ==
    LET IsAlias(al) == NameStr(al.key) = span
        IsItem(it) == NameStr(it) = span
        Reversed(s) == [i \in 1..Len(s) |-> s[Len(s) + 1 - i]]
        \* all_aliases and all_names are dicts keyed by the lower-cased name:
        \* the entry written last is the one that is kept
        Alias(last) == IF last # <<>> THEN [item |-> last[1].target, raw |-> span] ELSE NoItem
        Item(last) == IF last # <<>> THEN [item |-> last[1], raw |-> span] ELSE NoItem
        Fuzzy(close) ==
            IF close # <<>> THEN [item |-> _resolve_match(close[1], items, aliases), raw |-> span]
            ELSE NoItem
    IN ItemOrElse(Alias(FirstOf(SelectSeq(Reversed(aliases), IsAlias))),
          ItemOrElse(Item(FirstOf(SelectSeq(Reversed(items), IsItem))),
                     Fuzzy(get_close_matches(span, ItemTargets(items, aliases),
                                             ItemCutoff(span)))))

RECURSIVE SpanLoop(_, _, _, _)
\* the two loops of step 6 over the spans, in order: the first span that
\* matches something
SpanLoop(words, spans, items, aliases) ==
    IF spans = <<>> THEN NoItem
    ELSE ItemOrElse(SpanMatch(JoinStr(SubSeq(words, spans[1].start,
                                             spans[1].start + spans[1].len - 1)),
                              items, aliases),
                    SpanLoop(words, Tail(spans), items, aliases))

_match_item(toks, cfg) ==
    LET items == CfgGet(cfg, "items", <<>>)
        aliases == CfgGet(cfg, "aliases", <<>>)
        InText(name) == FindName(toks, name) # 0
        \* 1. exact substring match against the items, longest first
        Exact(hit) == IF hit # <<>> THEN [item |-> hit[1], raw |-> JoinStr(hit[1])] ELSE NoItem
        \* 2. exact substring match against the aliases, longest first
        Alias(hit) ==
            IF hit # <<>>
            THEN [item |-> Entry(aliases, hit[1])[1].target, raw |-> JoinStr(hit[1])]
            ELSE NoItem
        \* 3. singular/plural, 4. prefix: the raw text is the whole text
        IsPlural(it) == PluralEqual(TextLower(toks), NameStr(it))
        IsPrefixed(it) == StartsWith(NameStr(it), TextLower(toks))
        Whole(hit) ==
            IF hit # <<>>
            THEN [item |-> hit[1], raw |-> JoinStr([i \in 1..Len(toks) |-> TokStr(toks[i])])]
            ELSE NoItem
        \* 5. fuzzy match of the whole text
        Fuzzy(close) ==
            IF close # <<>>
            THEN [item |-> _resolve_match(close[1], items, aliases),
                  raw |-> JoinStr([i \in 1..Len(toks) |-> TokStr(toks[i])])]
            ELSE NoItem
    IN IF toks = <<>> THEN NoItem
       ELSE ItemOrElse(Exact(FirstOf(SelectSeq(SortedByLenDesc(items), InText))),
            ItemOrElse(Alias(FirstOf(SelectSeq(SortedByLenDesc(Keys(aliases)), InText))),
            ItemOrElse(Whole(FirstOf(SelectSeq(SortedByLenDesc(items), IsPlural))),
            ItemOrElse(Whole(FirstOf(SelectSeq(SortedByLenDesc(items), IsPrefixed))),
            ItemOrElse(Fuzzy(get_close_matches(TextLower(toks), ItemTargets(items, aliases),
                                               ItemCutoff(TextLower(toks)))),
                       SpanLoop(WordsLower(toks), SpanOrder(Len(toks)), items, aliases))))))

(***************************************************************************)
(* _parse_line                                                              *)
(***************************************************************************)
\* the record _parse_line starts from.  src (the positions, in the message, of
\* the lines that make up raw) and folded (the positions of the lines Rule B
\* folded onto the record) are history fields the source does not have: they
\* only name the lines behind a record; converted is one more, the quantity
\* and container each application of a conversion factor started from.
\* batch = 0 stands for "no batch key".
NewRecord(toks) ==
    [raw |-> <<toks>>,
     qty |-> None, item |-> None, item_raw |-> "",
     container |-> None, trans_type |-> None,
     location |-> None, direction |-> "none",
     date |-> None, notes_extra |-> None,
     has_qty |-> FALSE, has_item |-> FALSE,
     _unmatched_text |-> <<>>,
     batch |-> 0, src |-> <<>>, folded |-> {}, converted |-> <<>>]

\* the sign left where it is
KeepSign(toks) == toks

\* re.sub(r'^\s*[+\-]\s*', '', text)
StripSign(toks) == IF toks # <<>> /\ toks[1].k = "sign" THEN Tail(toks) ELSE toks

\* a token that \d+ matches as a whole
IsDigits(t) == t.k = "n" \/ (t.k = "d" /\ t.s = "six")

\* the special pattern never recognised
IsTookNever(toks) == FALSE

\* took\s+(\d+)\s+out\s+of\s+(\d+)\s+(.+) at the start of the line
IsTook(toks) ==
    /\ Len(toks) >= 6
    /\ NameAt(toks, 1, <<"took">>)
    /\ IsDigits(toks[2])
    /\ NameAt(toks, 3, <<"out", "of">>)
    /\ IsDigits(toks[5])

\* the digit groups of a text, left to right, each with its token and place in it
AllNumbers(toks) ==
    LET Of(i) == [g \in 1..Len(DigitGroups(toks[i])) |->
                     [value |-> DigitGroups(toks[i])[g], tok |-> i, group |-> g]]
    IN Flatten([i \in 1..Len(toks) |-> Of(i)])

\* the record _parse_line returns as r, or raises: the IndexError of
\* _container_variants escapes from the container search of _extract_qty or
\* of a retry
_parse_line(line, cfg, order) ==
    LET
        \* the token with its g-th digit group cut out
        CutGroup(t, g) ==
            LET sep == DateSep(t.s)
            IN CASE t.k = "d" /\ t.s # "six" /\ g = 1 -> Junk(sep \o ToString(t.b) \o sep \o ToString(t.c))
                 [] t.k = "d" /\ t.s # "six" /\ g = 2 -> Junk(ToString(t.a) \o sep \o sep \o ToString(t.c))
                 [] t.k = "d" /\ t.s # "six" /\ g = 3 -> Junk(ToString(t.a) \o sep \o ToString(t.b) \o sep)
                 [] t.k = "x" /\ g = 1 -> Junk(t.s \o ToString(t.b))
                 [] t.k = "x" /\ g = 2 -> Junk(ToString(t.a) \o t.s)
                 [] OTHER -> Junk("")
        \* text.replace(num_str, '', 1): the first group of that value goes
        ReplaceNumber(toks, value) ==
            LET Is(n) == n.value = value
                Cut(first) == [toks EXCEPT ![first.tok] = CutGroup(toks[first.tok], first.group)]
            IN SelectSeq(Cut(FirstOf(SelectSeq(AllNumbers(toks), Is))[1]), NonEmptyTok)
        \* one trial of the multi-number retry: another number of the line as quantity
        Trial(before, value) ==
            LET Matched(c, m) ==
                    [qty |-> Q(value), container |-> c.container, item |-> m.item, raw |-> m.raw,
                     raises |-> c.raises]
                Contained(trial_text, c) ==
                    Matched(c, _match_item(IF c.container # None THEN c.remaining ELSE trial_text, cfg))
                Of(trial_text) == Contained(trial_text, _extract_container(trial_text, cfg, order))
            IN Of(_remove_filler(ReplaceNumber(before, value), cfg))
        \* the numbers the retry tries, in order: those that differ from the quantity
        TrialNumbers(before, qty) ==
            LET Differs(n) == Q(n.value) # qty
                Of(nums) == IF Len(nums) > 1 THEN SelectSeq(nums, Differs) ELSE <<>>
            IN Of(AllNumbers(before))
        \* the trials up to and with the first that finds an item (or raises)
        FirstTrial(before, qty) ==
            LET Ends(t) == t.raises \/ t.item # None
                Trials(nums) == [i \in 1..Len(nums) |-> Trial(before, nums[i].value)]
            IN FirstOf(SelectSeq(Trials(TrialNumbers(before, qty)), Ends))
        \* _parse_line between two of its steps: the record r, the text not yet
        \* consumed, the text as it was before the quantity was taken, and whether
        \* an exception has escaped
        ParseState ==
            [r |-> NewRecord(line), remaining |-> StripSign(line), before |-> <<>>,
             raises |-> FALSE]
        \* "took X out of Y [item]": m is what _match_item made of group 3
        SetTook(p, m) ==
            [p EXCEPT !.r.qty = Q(DigitGroups(p.remaining[2])[1]),
                      !.r.has_qty = TRUE,
                      !.r.notes_extra = <<"had", ToString(DigitGroups(p.remaining[5])[1]), "total">>,
                      !.r.item = m.item,
                      !.r.item_raw = IF m.item # None THEN m.raw ELSE "",
                      !.r.has_item = m.item # None]
        TookOutOf(p) == SetTook(p, _match_item(SubSeq(p.remaining, 6, Len(p.remaining)), cfg))
        \* date_val, remaining = _extract_date(remaining)
        SetDate(p, d) == [p EXCEPT !.r.date = d.date, !.remaining = d.remaining]
        WithDate(p) == SetDate(p, _extract_date(p.remaining))
        \* loc, direction, remaining = _extract_location(remaining, config)
        SetLocation(p, l) ==
            [p EXCEPT !.r.location = l.location,
                      !.r.direction = IF l.location # None THEN l.direction ELSE "none",
                      !.remaining = l.remaining]
        WithLocation(p) == SetLocation(p, _extract_location(p.remaining, cfg))
        \* trans_type, remaining = _extract_verb(remaining, config)
        SetVerb(p, v) == [p EXCEPT !.r.trans_type = v.trans_type, !.remaining = v.remaining]
        WithVerb(p) == SetVerb(p, _extract_verb(p.remaining, cfg))
        \* supplier, remaining = _extract_supplier_info(remaining, config)
        SetSupplier(p, s) ==
            [p EXCEPT !.r.notes_extra = IF s.supplier # None THEN <<"from">> \o s.supplier ELSE None,
                      !.remaining = s.remaining]
        WithSupplier(p) ==
            IF HasFromWord(p.remaining, cfg)
            THEN SetSupplier(p, _extract_supplier_info(p.remaining, cfg))
            ELSE p
        \* qty, container, remaining = _extract_qty(remaining, config)
        SetQty(p, q) ==
            [p EXCEPT !.r.qty = q.qty, !.r.has_qty = q.qty # None, !.r.container = q.container,
                      !.before = p.remaining, !.remaining = q.remaining, !.raises = q.raises]
        WithQty(p) == SetQty(p, _extract_qty(p.remaining, cfg, order))
        \* remaining = _remove_filler(remaining, config)
        WithoutFiller(p) == [p EXCEPT !.remaining = _remove_filler(p.remaining, cfg)]
        \* item, raw = _match_item(remaining, config)
        SetItem(p, m) ==
            [p EXCEPT !.r.item = m.item,
                      !.r.item_raw = IF m.item # None THEN m.raw ELSE "",
                      !.r.has_item = m.item # None,
                      !.r._unmatched_text = IF m.item = None THEN p.remaining ELSE <<>>]
        WithItem(p) == IF p.remaining # <<>> THEN SetItem(p, _match_item(p.remaining, cfg)) ELSE p
        \* the multi-number retry: t is empty, or holds the trial the loop ended on
        SetTrial(p, t) ==
            IF t = <<>> THEN p
            ELSE IF t[1].raises THEN [p EXCEPT !.raises = TRUE]
            ELSE [p EXCEPT !.r.qty = t[1].qty, !.r.has_qty = TRUE,
                           !.r.item = t[1].item, !.r.item_raw = t[1].raw, !.r.has_item = TRUE,
                           !.r._unmatched_text = <<>>,
                           !.r.container = IF t[1].container # None THEN t[1].container ELSE @]
        WithTrials(p) ==
            IF ~p.r.has_item /\ p.r.has_qty
            THEN SetTrial(p, FirstTrial(p.before, p.r.qty))
            ELSE p
        \* converted = _convert_container(r['item'], r['container'], r['qty'], config)
        SetConverted(p, converted) ==
            IF converted # None
            THEN [p EXCEPT !.r.qty = converted, !.r.container = None,
                           !.r.converted = Append(@, [qty |-> p.r.qty,
                                                      container |-> p.r.container])]
            ELSE p
        WithConversion(p) ==
            IF p.r.item # None /\ p.r.container # None /\ p.r.qty # None
            THEN SetConverted(p, _convert_container(p.r.item, p.r.container, p.r.qty, cfg))
            ELSE p
        \* the steps after the quantity, which an exception in _extract_qty skips
        AfterQty(p) ==
            IF p.raises THEN p
            ELSE WithConversion(WithTrials(WithItem(WithoutFiller(p))))
        ParseSteps(p) ==
            IF IsTook(p.remaining) THEN TookOutOf(p)
            ELSE AfterQty(WithQty(WithSupplier(WithVerb(WithLocation(WithDate(p))))))
    IN [k \in {"r", "raises"} |-> ParseSteps(ParseState)[k]]


(***************************************************************************)
(* _merge_lines                                                             *)
(***************************************************************************)
\* Rule A without the test of the unmatched text
RuleAAnyText(current, nxt) ==
    /\ current.has_qty /\ ~current.has_item
    /\ nxt.has_item /\ ~nxt.has_qty

\* Rule A applies to current and nxt
RuleA(current, nxt) ==
    /\ current.has_qty /\ ~current.has_item
    /\ current._unmatched_text = <<>>
    /\ nxt.has_item /\ ~nxt.has_qty

\* the copy of current with the item of nxt, the conversion not tried again
CombineNoConversion(current, nxt, cfg) ==
    [current EXCEPT
       !.item = nxt.item,
       !.item_raw = nxt.item_raw,
       !.has_item = TRUE,
       !.raw = current.raw \o nxt.raw,
       !.src = current.src \o nxt.src]

\* the record Rule A builds: a copy of current with the item of nxt
Combine(current, nxt, cfg) ==
    LET Converted(combined, conv) ==
            IF conv # None
            THEN [combined EXCEPT !.qty = conv, !.container = None,
                                  !.converted = Append(@, [qty |-> combined.qty,
                                                           container |-> combined.container])]
            ELSE combined
        Convert(combined) ==
            Converted(combined,
                      IF combined.container # None /\ combined.item # None
                      THEN _convert_container(combined.item, combined.container,
                                              combined.qty, cfg)
                      ELSE None)
    IN Convert([current EXCEPT
                  !.item = nxt.item,
                  !.item_raw = nxt.item_raw,
                  !.has_item = TRUE,
                  !.raw = current.raw \o nxt.raw,
                  !.src = current.src \o nxt.src])

\* Rule B applies to current, given what was merged so far
RuleB(current, merged_so_far) ==
    /\ ~current.has_qty /\ ~current.has_item
    /\ (current.trans_type # None \/ current.notes_extra # None)
    /\ current.location = None
    /\ merged_so_far # <<>>

\* prev with the type of the context-only line whatever type prev has
FoldTypeAlways(prev, current) ==
    [prev EXCEPT
       !.trans_type = IF current.trans_type # None THEN current.trans_type ELSE @,
       !.notes_extra = IF current.notes_extra # None THEN current.notes_extra ELSE @,
       !.folded = @ \cup Range(current.src)]

\* prev after a context-only line was applied to it
Fold(prev, current) ==
    [prev EXCEPT
       !.trans_type = IF current.trans_type # None /\ prev.trans_type = None
                      THEN current.trans_type ELSE @,
       !.notes_extra = IF current.notes_extra # None THEN current.notes_extra ELSE @,
       !.folded = @ \cup Range(current.src)]

RECURSIVE MergeFrom(_, _, _, _)
\* the while loop of _merge_lines from position i on
MergeFrom(parsed_lines, i, acc, cfg) ==
    IF i > Len(parsed_lines) THEN acc
    ELSE LET current == parsed_lines[i]
         IN IF i + 1 <= Len(parsed_lines) /\ RuleA(current, parsed_lines[i + 1])
            THEN MergeFrom(parsed_lines, i + 2,
                           Append(acc, Combine(current, parsed_lines[i + 1], cfg)), cfg)
            ELSE IF RuleB(current, acc)
            THEN MergeFrom(parsed_lines, i + 1,
                           [acc EXCEPT ![Len(acc)] = Fold(acc[Len(acc)], current)], cfg)
            ELSE MergeFrom(parsed_lines, i + 1, Append(acc, current), cfg)

_merge_lines(parsed_lines, cfg) == MergeFrom(parsed_lines, 1, <<>>, cfg)

(***************************************************************************)
(* _broadcast_context                                                       *)
(***************************************************************************)
NoContext == [loc |-> None, dir |-> "none", type |-> None, date |-> None]

\* the running context keeps the value it saw first
TakeInFirst(ctx, item) ==
    [loc |-> IF ctx.loc = None THEN item.location ELSE ctx.loc,
     dir |-> IF ctx.loc = None THEN item.direction ELSE ctx.dir,
     type |-> IF ctx.type = None THEN item.trans_type ELSE ctx.type,
     date |-> IF ctx.date = None THEN item.date ELSE ctx.date]

\* the running context once the record's own fields are taken in
TakeIn(ctx, item) ==
    [loc |-> IF item.location # None THEN item.location ELSE ctx.loc,
     dir |-> IF item.location # None THEN item.direction ELSE ctx.dir,
     type |-> IF item.trans_type # None THEN item.trans_type ELSE ctx.type,
     date |-> IF item.date # None THEN item.date ELSE ctx.date]

\* the record with every missing field taken from the context
FillFrom(ctx, item) ==
    [item EXCEPT
       !.location = IF item.location = None /\ ctx.loc # None THEN ctx.loc ELSE @,
       !.direction = IF item.location = None /\ ctx.loc # None THEN ctx.dir ELSE @,
       !.trans_type = IF item.trans_type = None /\ ctx.type # None THEN ctx.type ELSE @,
       !.date = IF item.date = None /\ ctx.date # None THEN ctx.date ELSE @]

RECURSIVE ForwardPass(_, _)
\* the forward pass: each record updates the context, then inherits from it
ForwardPass(items, ctx) ==
    LET Step(c) == <<FillFrom(c, Head(items))>> \o ForwardPass(Tail(items), c)
    IN IF items = <<>> THEN <<>> ELSE Step(TakeIn(ctx, Head(items)))

RECURSIVE LastSeen(_, _)
\* the last-seen values of the whole list
LastSeen(items, ctx) ==
    IF items = <<>> THEN ctx ELSE LastSeen(Tail(items), TakeIn(ctx, Head(items)))

\* the backward fill left out
ForwardOnly(items) == ForwardPass(items, NoContext)

_broadcast_context(items) ==
    LET Backward(forward, last) == [i \in 1..Len(forward) |-> FillFrom(last, forward[i])]
        Passes(forward) == Backward(forward, LastSeen(forward, NoContext))
    IN Passes(ForwardPass(items, NoContext))

(***************************************************************************)
(* _generate_result                                                         *)
(***************************************************************************)
\* _NON_ZERO_SUM_DEFAULT
NonZeroSumDefault ==
    {<<"eaten">>, <<"starting_point">>, <<"recount">>, <<"supplier_to_warehouse">>}

\* alpha / len(raw) > 0.3 over the raw text of the record; len(raw) counts the
\* characters of the lines and one newline between two lines
_is_note(item) ==
    LET Ratio(alpha, chars) == chars > 0 /\ alpha # 0 /\ 10 * alpha > 3 * chars
    IN Ratio(AlphaOfLine(Flatten(item.raw)), CharsOfLine(Flatten(item.raw)))

\* the classification without the branch for a quantity without an item
ClassifyNoQtyBranch(item) ==
    IF item.has_item THEN "transaction"
    ELSE IF \/ (item.trans_type # None /\ (item.location # None \/ item.date # None))
            \/ (item.location # None /\ item.date # None)
            \/ (item.location # None /\ item._unmatched_text = <<>>)
    THEN "context"
    ELSE IF _is_note(item) THEN "note"
    ELSE "unparseable"

\* the branch of the classification loop a record takes
Classify(item) ==
    IF item.has_item THEN "transaction"
    ELSE IF item.has_qty /\ ~item.has_item THEN "unparseable"
    ELSE IF \/ (item.trans_type # None /\ (item.location # None \/ item.date # None))
            \/ (item.location # None /\ item.date # None)
            \/ (item.location # None /\ item._unmatched_text = <<>>)
    THEN "context"
    ELSE IF _is_note(item) THEN "note"
    ELSE "unparseable"

\* the date test an if of its own, not an elif: a change of both counts twice
NextBatchTwice(item, batch, prev_dest, prev_date) ==
    batch
      + (IF item.location # None /\ prev_dest # None /\ item.location # prev_dest
         THEN 1 ELSE 0)
      + (IF item.date # None /\ prev_date # None /\ item.date # prev_date
         THEN 1 ELSE 0)

\* the date test left out
NextBatchByLocation(item, batch, prev_dest, prev_date) ==
    IF item.location # None /\ prev_dest # None /\ item.location # prev_dest
    THEN batch + 1
    ELSE batch

\* the batch of item, given the running batch and the previous non-null
\* location and date
NextBatch(item, batch, prev_dest, prev_date) ==
    IF item.location # None /\ prev_dest # None /\ item.location # prev_dest
    THEN batch + 1
    ELSE IF item.date # None /\ prev_date # None /\ item.date # prev_date
    THEN batch + 1
    ELSE batch

RECURSIVE BatchLoop(_, _, _, _)
\* the loop of _assign_batches over items[1:]
BatchLoop(rest, batch, prev_dest, prev_date) ==
    LET Step(item, b) ==
            <<[item EXCEPT !.batch = b]>>
              \o BatchLoop(Tail(rest), b,
                           IF item.location # None THEN item.location ELSE prev_dest,
                           IF item.date # None THEN item.date ELSE prev_date)
    IN IF rest = <<>> THEN <<>>
       ELSE Step(Head(rest), NextBatch(Head(rest), batch, prev_dest, prev_date))

_assign_batches(items) ==
    IF items = <<>> THEN <<>>
    ELSE <<[items[1] EXCEPT !.batch = 1]>>
           \o BatchLoop(Tail(items), 1, items[1].location, items[1].date)

\* a row; container = None stands for a row without the keys _container, _raw_qty
Row(date, inv_type, batch, notes, container, raw_qty, qty, trans_type, location) ==
    [date |-> date, inv_type |-> inv_type, batch |-> batch, notes |-> notes,
     _container |-> container, _raw_qty |-> raw_qty,
     qty |-> qty, trans_type |-> trans_type, vehicle_sub_unit |-> location]

\* the default set left out
NonZeroSumTypesNoDefault(cfg) == CfgGet(cfg, "non_zero_sum_types", {})

\* set(config.get('non_zero_sum_types', _NON_ZERO_SUM_DEFAULT))
NonZeroSumTypes(cfg) == CfgGet(cfg, "non_zero_sum_types", NonZeroSumDefault)

\* the two locations never swapped
TransferEndsNoSwap(direction, location, default_source) == <<default_source, location>>

\* the locations of the negative and of the positive row of a transfer: with
\* direction 'from' the stock leaves the named location
TransferEnds(direction, location, default_source) ==
    IF direction = "from" THEN <<location, default_source>>
    ELSE <<default_source, location>>

\* the rows of a record if the direction 'from' were looked at first
_item_to_rowsByDirection(item, cfg, now) ==
    LET dt == IF item.date # None THEN item.date ELSE now
        inv_type == item.item
        qty == IF item.qty # None THEN item.qty ELSE Q(1)
        trans_type == item.trans_type
        location == item.location
        batch == IF item.batch # 0 THEN item.batch ELSE 1
        notes == item.notes_extra
        default_source == CfgGet(cfg, "default_source", <<"warehouse">>)
        cont == item.container
        raw_qty == IF item.container # None THEN qty ELSE None
        non_zero_sum == NonZeroSumTypes(cfg)
        transfer_type == IF trans_type = None
                         THEN CfgGet(cfg, "default_transfer_type", <<"warehouse_to_branch">>)
                         ELSE trans_type
        Base(q, tt, loc) == Row(dt, inv_type, batch, notes, cont, raw_qty, q, tt, loc)
        Pair(ends) == <<Base(QNeg(QAbs(qty)), transfer_type, ends[1]),
                        Base(QAbs(qty), transfer_type, ends[2])>>
    IN IF location # None /\ location # default_source /\ item.direction = "from"
       THEN Pair(TransferEnds(item.direction, location, default_source))
       ELSE IF trans_type \in non_zero_sum
       THEN <<Base(qty, trans_type, IF location # None THEN location ELSE default_source)>>
       ELSE IF location # None /\ location # default_source
       THEN Pair(TransferEnds(item.direction, location, default_source))
       ELSE IF location # None /\ location = default_source
       THEN <<Base(QAbs(qty), trans_type, default_source)>>
       ELSE <<Base(qty, trans_type, None)>>

_item_to_rows(item, cfg, now) ==
    LET dt == IF item.date # None THEN item.date ELSE now
        inv_type == item.item
        qty == IF item.qty # None THEN item.qty ELSE Q(1)
        trans_type == item.trans_type
        location == item.location
        batch == IF item.batch # 0 THEN item.batch ELSE 1
        notes == item.notes_extra
        default_source == CfgGet(cfg, "default_source", <<"warehouse">>)
        cont == item.container
        raw_qty == IF item.container # None THEN qty ELSE None
        non_zero_sum == NonZeroSumTypes(cfg)
        transfer_type == IF trans_type = None
                         THEN CfgGet(cfg, "default_transfer_type", <<"warehouse_to_branch">>)
                         ELSE trans_type
        Base(q, tt, loc) == Row(dt, inv_type, batch, notes, cont, raw_qty, q, tt, loc)
        Pair(ends) == <<Base(QNeg(QAbs(qty)), transfer_type, ends[1]),
                        Base(QAbs(qty), transfer_type, ends[2])>>
    IN IF trans_type \in non_zero_sum
       THEN <<Base(qty, trans_type, IF location # None THEN location ELSE default_source)>>
       ELSE IF location # None /\ location # default_source
       THEN Pair(TransferEnds(item.direction, location, default_source))
       ELSE IF location # None /\ location = default_source
       THEN <<Base(QAbs(qty), trans_type, default_source)>>
       ELSE <<Base(qty, trans_type, None)>>

\* the records that go on to row generation, in order
TransactionItems(items) ==
    LET Is(item) == Classify(item) = "transaction" IN SelectSeq(items, Is)

\* the raw texts the classification loop appends to notes / to unparseable
RawsOf(items, class) ==
    LET Is(item) == Classify(item) = class
        Raws(sel) == [i \in 1..Len(sel) |-> sel[i].raw]
    IN Raws(SelectSeq(items, Is))

_generate_result(items, cfg, now) ==
    LET Result(batched, per_item) ==
            [transaction_items |-> batched,
             rows_of |-> per_item,
             result |-> [rows |-> Flatten(per_item),
                         notes |-> RawsOf(items, "note"),
                         unparseable |-> RawsOf(items, "unparseable")]]
        Rows(batched) ==
            Result(batched, [i \in 1..Len(batched) |-> _item_to_rows(batched[i], cfg, now)])
    IN Rows(_assign_batches(TransactionItems(items)))

(***************************************************************************)
(* Double-entry partner detection (inventory_core.py).  Rows are counted    *)
(* from 1, and 0 stands for the None that find_partner returns.             *)
(***************************************************************************)
find_partner(rows, idx) ==
    LET row == rows[idx]
        Opposite(i) ==
            /\ i # idx
            /\ rows[i].batch = row.batch
            /\ rows[i].inv_type = row.inv_type
            /\ rows[i].qty # None
            /\ rows[i].qty[1] * row.qty[1] < 0
    IN IF row.inv_type = None \/ row.qty = None THEN 0
       ELSE IF row.qty[1] = 0 THEN 0
       ELSE MinOr0({i \in 1..Len(rows) : Opposite(i)})

\* eval_qty(text): NxN or a plain number, and None for what float() rejects;
\* float() takes "inf" and "infinity", and int(val) then raises OverflowError
eval_qty(raw) ==
    IF Len(raw) = 1 /\ raw[1].k = "x"
    THEN [ok |-> TRUE, val |-> Q(raw[1].a * raw[1].b), raises |-> "none"]
    ELSE IF Len(raw) = 1 /\ raw[1].k = "n"
    THEN [ok |-> TRUE, val |-> Q(raw[1].a), raises |-> "none"]
    ELSE IF Len(raw) = 1 /\ raw[1].k = "w" /\ Lower(raw[1].s) \in {"inf", "infinity"}
    THEN [ok |-> FALSE, val |-> None, raises |-> "OverflowError"]
    ELSE [ok |-> FALSE, val |-> None, raises |-> "none"]

\* the rows after review_loop has set a field of row row_num: the partner is
\* looked up before the row changes
EditRow(rows, row_num, field, new_value) ==
    LET WithPartner(edited, partner_idx) ==
            IF partner_idx = 0 THEN edited
            ELSE IF field \in {"inv_type", "date", "trans_type", "batch"}
            THEN [edited EXCEPT ![partner_idx][field] = new_value]
            ELSE IF field = "qty"
            THEN [edited EXCEPT ![partner_idx].qty = QNeg(new_value)]
            ELSE edited
    IN WithPartner([rows EXCEPT ![row_num][field] = new_value], find_partner(rows, row_num))

(***************************************************************************)
(* parse(text, config, today), stage by stage                               *)
(***************************************************************************)
EmptyResult == [rows |-> <<>>, notes |-> <<>>, unparseable |-> <<>>]

\* the token is not text that _METADATA_PATTERNS cuts out
NotMeta(t) ==
    LET
        IsMeta == t.k = "meta"
    IN ~IsMeta

\* _METADATA_PATTERNS are cut out of the text
_strip_metadata(message) == [i \in 1..Len(message) |-> SelectSeq(message[i], NotMeta)]

\* [l.strip() for l in text.split('\n') if l.strip()]
SplitLines(message) ==
    LET
        NonBlank(line) == line # <<>>
    IN SelectSeq(_strip_metadata(message), NonBlank)

\* every line that can reach _parse_line: a line of the vocabulary, stripped
StrippedLines == {SelectSeq(l, NotMeta) : l \in CfgLineVocab}

\* _parse_line is a pure function of the line, the config and the order of the
\* container set: it is tabulated once over the vocabulary
LineTable ==
    [cfg \in ConfigVariants |->
        [order \in ContainerOrders(cfg) |->
            [line \in StrippedLines |-> _parse_line(line, cfg, order)]]]

ParseAll(ls, cfg, order) ==
    LET
        \* [_parse_line(line, config) for line in lines], or the exception that escapes
        SetParsed(table) ==
            IF \E i \in 1..Len(ls) : table[ls[i]].raises
            THEN [raised |-> "IndexError", parsed |-> <<>>]
            ELSE [raised |-> "none",
                  parsed |-> [i \in 1..Len(ls) |-> [table[ls[i]].r EXCEPT !.src = <<i>>]]]
    IN SetParsed(LineTable[cfg][order])

parse(message, cfg, now, order) ==
    LET Run(all) ==
            IF all.raised # "none" THEN [raised |-> all.raised, result |-> EmptyResult]
            ELSE [raised |-> "none",
                  result |-> _generate_result(
                                 _broadcast_context(_merge_lines(all.parsed, cfg)),
                                 cfg, now).result]
    IN Run(ParseAll(SplitLines(message), cfg, order))

\* every message of 1..n lines over the vocabulary
Messages(vocab, n) == UNION {[1..k -> vocab] : k \in 1..n}

InitWith(messages, configs) ==
    /\ text \in messages
    /\ config \in configs
    /\ today = Today
    /\ setOrder \in ContainerOrders(config)
    /\ pc = "split"
    /\ lines = <<>>
    /\ parsed = <<>>
    /\ merged = <<>>
    /\ broadcast = <<>>
    /\ transaction_items = <<>>
    /\ rows_of = <<>>
    /\ result = EmptyResult
    /\ raised = "none"
    /\ calls = 1
    /\ firstResult = EmptyResult
    /\ edits = 0
    /\ cmd = [name |-> "none", row |-> 0, field |-> "", raw |-> <<>>]

Init == InitWith(Messages(LineVocab, MaxLines), {StdConfig})

InitCfg == InitWith(Messages(CfgLineVocab, MaxCfgLines), ConfigVariants)

InitMerge == InitWith(Messages(MergeVocab, MaxLines), {StdConfig})

\* the messages whose rows are reviewed, with and without transaction_types
InitReview ==
    InitWith(Messages({Lines.ToC, Lines.ByC, Lines.Cucumbers}, MaxReviewLines),
             {StdConfig, FullConfig})

Split ==
    /\ pc = "split"
    /\ lines' = SplitLines(text)
    /\ pc' = "parse"
    /\ UNCHANGED <<cmd, edits, text, config, today, setOrder, parsed, merged, broadcast,
                   transaction_items, rows_of, result, raised, calls, firstResult>>

\* the list comprehension over _parse_line; an exception of one line ends the call
ParseLines ==
    /\ pc = "parse"
    /\ \E all \in {ParseAll(lines, config, setOrder)} :
          /\ raised' = all.raised
          /\ parsed' = all.parsed
          /\ pc' = IF all.raised = "none" THEN "merge" ELSE "raised"
    \* the config dict once _extract_location has run on a line: its list of
    \* locations is the one object of the config the function appends next to
    /\ config' = IF /\ "locations" \in DOMAIN config
                    /\ \E n \in 1..Len(lines) : ~IsTook(StripSign(lines[n]))
                 THEN [config EXCEPT !.locations = LocationLists(config).locations]
                 ELSE config
    /\ UNCHANGED <<cmd, edits, text, today, setOrder, lines, merged, broadcast,
                   transaction_items, rows_of, result, calls, firstResult>>

MergeLines ==
    /\ pc = "merge"
    /\ merged' = _merge_lines(parsed, config)
    /\ pc' = "broadcast"
    /\ UNCHANGED <<cmd, edits, text, config, today, setOrder, lines, parsed, broadcast,
                   transaction_items, rows_of, result, raised, calls, firstResult>>

BroadcastContext ==
    /\ pc = "broadcast"
    /\ broadcast' = _broadcast_context(merged)
    /\ pc' = "generate"
    /\ UNCHANGED <<cmd, edits, text, config, today, setOrder, lines, parsed, merged,
                   transaction_items, rows_of, result, raised, calls, firstResult>>

GenerateResult ==
    /\ pc = "generate"
    /\ \E g \in {_generate_result(broadcast, config, today)} :
          /\ transaction_items' = g.transaction_items
          /\ rows_of' = g.rows_of
          /\ result' = g.result
          /\ firstResult' = IF calls = 1 THEN g.result ELSE firstResult
    /\ pc' = "done"
    /\ UNCHANGED <<cmd, edits, text, config, today, setOrder, lines, parsed, merged, broadcast,
                   raised, calls>>

\* parse() is called again on the same text, config and today, in a process
\* whose string hashing may differ; the call starts afresh
ParseAgain ==
    /\ pc = "done"
    /\ calls < MaxCalls
    /\ calls' = calls + 1
    /\ setOrder' \in ContainerOrders(config)
    /\ pc' = "split"
    /\ lines' = <<>>
    /\ parsed' = <<>>
    /\ merged' = <<>>
    /\ broadcast' = <<>>
    /\ transaction_items' = <<>>
    /\ rows_of' = <<>>
    /\ result' = EmptyResult
    /\ UNCHANGED <<cmd, edits, text, config, today, raised, firstResult>>

\* review_loop(result, raw_text, config) starts on what parse returned
ReviewLoop ==
    /\ pc = "done"
    /\ pc' = "review"
    /\ UNCHANGED <<cmd, edits, text, config, today, setOrder, lines, parsed, merged, broadcast,
                   transaction_items, rows_of, result, raised, calls, firstResult>>

\* the command <row><field code> of review_loop: a row number out of range is
\* refused before anything is asked; else the value is asked for (an option of
\* a closed-set field, picked or typed, or a text that eval_qty, parse_date or
\* int() reads); an empty answer cancels, a text that does not read is
\* refused, and an accepted value is written to the row and its partner
EditField ==
    /\ pc = "review"
    /\ result.rows # <<>>
    /\ edits < MaxEdits
    /\ \E row_num \in 0..(Len(result.rows) + 1) :
       \E field \in {"date", "inv_type", "qty", "trans_type", "vehicle_sub_unit",
                      "notes", "batch"} :
          IF row_num \notin 1..Len(result.rows)
          THEN /\ cmd' = [name |-> "edit", row |-> row_num, field |-> field, raw |-> <<>>]
               /\ UNCHANGED <<result, pc, raised>>
          ELSE LET Typed(options) == {<<>>} \cup {[i \in 1..Len(o) |-> W(o[i])] : o \in options}
                   Words(raw) == [i \in 1..Len(raw) |-> raw[i].s]
                   Refused == [ok |-> FALSE, val |-> None, raises |-> "none"]
                   Accepted(val) == [ok |-> TRUE, val |-> val, raises |-> "none"]
                   \* parse_date(text) on one date-shaped text
                   Spelled(t) ==
                       CASE t.s = "dot" -> <<FullYear(t.c), t.b, t.a>>
                         [] t.s = "slash" -> <<FullYear(t.c), t.a, t.b>>
                         [] t.s = "six" -> <<2000 + t.c, t.b, t.a>>
                         [] OTHER -> <<t.a, t.b, t.c>>
                   DateOf(d) == IF ValidDate(d[1], d[2], d[3]) THEN Accepted(d) ELSE Refused
                   Read(raw) ==
                       IF raw = <<>> THEN Refused
                       ELSE CASE field \in {"inv_type", "trans_type", "vehicle_sub_unit", "notes"} ->
                                    Accepted(Words(raw))
                              [] field = "qty" -> eval_qty(raw)
                              [] field = "date" ->
                                    IF Len(raw) = 1 /\ raw[1].k = "d"
                                    THEN DateOf(Spelled(raw[1])) ELSE Refused
                              [] field = "batch" ->
                                    IF Len(raw) = 1 /\ raw[1].k = "n"
                                    THEN Accepted(raw[1].a) ELSE Refused
                   Write(new_value) ==
                       IF new_value.raises # "none"
                       THEN /\ pc' = "raised"
                            /\ raised' = new_value.raises
                            /\ UNCHANGED result
                       ELSE IF ~new_value.ok
                       THEN UNCHANGED <<result, pc, raised>>
                       ELSE /\ result' = [result EXCEPT
                                             !.rows = EditRow(result.rows, row_num, field,
                                                              new_value.val)]
                            /\ UNCHANGED <<pc, raised>>
               IN \E raw \in
                      CASE field = "inv_type" -> Typed(Range(CfgGet(config, "items", <<>>)))
                        [] field = "trans_type" ->
                              Typed(Range(CfgGet(config, "transaction_types", <<>>)))
                        [] field = "vehicle_sub_unit" ->
                              Typed(Range(CfgGet(config, "locations", <<>>))
                                       \cup {CfgGet(config, "default_source", <<"warehouse">>)})
                        [] field = "qty" ->
                              {<<>>, <<N(0)>>, <<N(7)>>, <<W("abc")>>, <<W("inf")>>}
                        [] field = "date" ->
                              {<<>>, <<D("dot", 20, 3, 25)>>, <<D("dot", 32, 13, 25)>>}
                        [] field = "batch" -> {<<>>, <<N(2)>>, <<W("x")>>}
                        [] field = "notes" -> {<<>>, <<W("checked")>>} :
                      /\ cmd' = [name |-> "edit", row |-> row_num, field |-> field, raw |-> raw]
                      /\ Write(Read(raw))
    /\ edits' = edits + 1
    /\ UNCHANGED <<text, config, today, setOrder, lines, parsed, merged, broadcast,
                   transaction_items, rows_of, calls, firstResult>>

\* the command x<row> of review_loop: the row is popped (the partner, if
\* any, is only named in a warning); a row number out of range is refused.
\* The records of the call no longer tell which rows are pairs.
DeleteRow ==
    /\ pc = "review"
    /\ result.rows # <<>>
    /\ edits < MaxEdits
    /\ \E row_num \in 0..(Len(result.rows) + 1) :
          /\ cmd' = [name |-> "delete", row |-> row_num, field |-> "", raw |-> <<>>]
          /\ IF row_num \in 1..Len(result.rows)
             THEN /\ result' = [result EXCEPT !.rows = RemoveSpan(@, row_num, row_num)]
                  /\ transaction_items' = <<>>
                  /\ rows_of' = <<>>
             ELSE UNCHANGED <<result, transaction_items, rows_of>>
    /\ edits' = edits + 1
    /\ UNCHANGED <<text, config, today, setOrder, pc, lines, parsed, merged, broadcast,
                   raised, calls, firstResult>>

\* the command + of review_loop, with rows or without: rows.append(empty_row())
AddRow ==
    /\ pc = "review"
    /\ edits < MaxEdits
    /\ cmd' = [name |-> "add", row |-> 0, field |-> "", raw |-> <<>>]
    /\ result' = [result EXCEPT
                     !.rows = Append(@, Row(today, <<"???">>, 1, None, None, None, Q(0),
                                            None, None))]
    /\ edits' = edits + 1
    /\ UNCHANGED <<text, config, today, setOrder, pc, lines, parsed, merged, broadcast,
                   transaction_items, rows_of, raised, calls, firstResult>>

\* c if the rows were returned as they are, _container and _raw_qty included
ConfirmAsIs ==
    /\ pc = "review"
    /\ result.rows # <<>>
    /\ edits < MaxEdits
    /\ cmd' = [name |-> "confirm", row |-> 0, field |-> "", raw |-> <<>>]
    /\ pc' = "confirmed"
    /\ edits' = edits + 1
    /\ UNCHANGED <<result, config, raised, text, today, setOrder, lines, parsed, merged,
                   broadcast, transaction_items, rows_of, calls, firstResult>>

\* the command c of review_loop when there are rows: incomplete rows are
\* warned about, and any answer but yes goes back to the review; the user is
\* asked for the factor of the containers that were not converted (here the
\* first of them is answered with nothing, with 12 or with inf, the others
\* with nothing; float() takes inf and int() raises on it); then _container
\* and _raw_qty are popped from every row and the rows are returned.  No
\* alias is offered: the item a row had before an edit is an item of the
\* config or '???'.
Confirm ==
    /\ pc = "review"
    /\ result.rows # <<>>
    /\ edits < MaxEdits
    /\ \E resp \in {"y", "n"} :
       \E factor \in {"", "12", "inf"} :
          LET rows == result.rows
              incomplete ==
                  {i \in 1..Len(rows) : \/ rows[i].inv_type = <<"???">>
                                        \/ rows[i].trans_type = None
                                        \/ rows[i].vehicle_sub_unit = None}
              convs == CfgGet(config, "unit_conversions", <<>>)
              Known(item, container) ==
                  \E e \in Range(convs) :
                      e.key = item /\ \E c \in Range(e.convs) : c.key = container
              \* check_conversion_opportunity: the first row that has a prompt, 0 if none
              prompt ==
                  MinOr0({i \in 1..Len(rows) :
                             /\ rows[i]._container # None
                             /\ rows[i].inv_type # <<"???">>
                             /\ ~Known(rows[i].inv_type, rows[i]._container)})
              entry(row) == [key |-> row._container, factor |-> 12]
              Saved(row) ==
                  IF \E e \in Range(convs) : e.key = row.inv_type
                  THEN [i \in 1..Len(convs) |->
                           IF convs[i].key = row.inv_type
                           THEN [convs[i] EXCEPT !.convs = Append(@, entry(row))]
                           ELSE convs[i]]
                  ELSE Append(convs, [key |-> row.inv_type, convs |-> <<entry(row)>>])
              WithConversions(new) ==
                  [k \in DOMAIN config \cup {"unit_conversions"} |->
                      IF k = "unit_conversions" THEN new ELSE config[k]]
          IN /\ cmd' = [name |-> "confirm", row |-> 0, field |-> "",
                        raw |-> IF incomplete = {} THEN <<>> ELSE <<W(resp)>>]
             /\ IF incomplete # {} /\ resp # "y"
                THEN UNCHANGED <<result, config, pc, raised>>
                ELSE IF prompt # 0 /\ factor = "inf"
                THEN /\ pc' = "raised"
                     /\ raised' = "OverflowError"
                     /\ UNCHANGED <<result, config>>
                ELSE /\ config' = IF prompt # 0 /\ factor = "12"
                                  THEN WithConversions(Saved(rows[prompt])) ELSE config
                     /\ result' = [result EXCEPT
                                      !.rows = [i \in 1..Len(rows) |->
                                                   [rows[i] EXCEPT !._container = None,
                                                                   !._raw_qty = None]]]
                     /\ pc' = "confirmed"
                     /\ UNCHANGED raised
    /\ edits' = edits + 1
    /\ UNCHANGED <<text, today, setOrder, lines, parsed, merged, broadcast,
                   transaction_items, rows_of, calls, firstResult>>

\* the command q of review_loop when there are rows: return None
Quit ==
    /\ pc = "review"
    /\ result.rows # <<>>
    /\ edits < MaxEdits
    /\ cmd' = [name |-> "quit", row |-> 0, field |-> "", raw |-> <<>>]
    /\ pc' = "quit"
    /\ edits' = edits + 1
    /\ UNCHANGED <<text, config, today, setOrder, lines, parsed, merged, broadcast,
                   transaction_items, rows_of, result, raised, calls, firstResult>>

\* the command r (or e) of review_loop, with rows or without: _edit_retry lets
\* the user change the lines and parses the text again; the rows, notes and
\* unparseable entries of the review are those of the new call, whose stages
\* run before the review goes on
Retry ==
    /\ pc = "review"
    /\ edits < MaxEdits
    /\ cmd' = [name |-> "retry", row |-> 0, field |-> "", raw |-> <<>>]
    /\ text' \in {text, <<Lines.Pending>>, <<Lines.Note>>}
    /\ pc' = "split"
    /\ lines' = <<>>
    /\ parsed' = <<>>
    /\ merged' = <<>>
    /\ broadcast' = <<>>
    /\ transaction_items' = <<>>
    /\ rows_of' = <<>>
    /\ result' = EmptyResult
    /\ edits' = edits + 1
    /\ UNCHANGED <<config, today, setOrder, raised, calls, firstResult>>

\* the command ? and every text that is no command, when there are rows: the
\* help or the unknown_command message is printed
OtherCommand ==
    /\ pc = "review"
    /\ result.rows # <<>>
    /\ edits < MaxEdits
    /\ \E name \in {"help", "unknown"} :
          cmd' = [name |-> name, row |-> 0, field |-> "", raw |-> <<>>]
    /\ edits' = edits + 1
    /\ UNCHANGED <<text, config, today, setOrder, pc, lines, parsed, merged, broadcast,
                   transaction_items, rows_of, result, raised, calls, firstResult>>

\* the branch for a list of no rows if c were let through to the confirmation
EmptyRowsConfirm ==
    /\ pc = "review"
    /\ result.rows = <<>>
    /\ edits < MaxEdits
    /\ \E name \in {"help", "save_note", "skip", "quit", "confirm", "unknown"} :
          /\ cmd' = [name |-> name, row |-> 0, field |-> "", raw |-> <<>>]
          /\ pc' = IF name = "save_note" /\ result.notes # <<>> THEN "saved_note"
                   ELSE IF name = "confirm" THEN "confirmed"
                   ELSE IF name \in {"skip", "quit"} THEN "quit"
                   ELSE "review"
    /\ edits' = edits + 1
    /\ UNCHANGED <<text, config, today, setOrder, lines, parsed, merged, broadcast,
                   transaction_items, rows_of, result, raised, calls, firstResult>>

\* the branch of review_loop for a list of no rows (retry and + are Retry and
\* AddRow): n returns the notes if there are any, s, q and c return None,
\* and ?, n without notes and every other text go round the loop
EmptyRows ==
    /\ pc = "review"
    /\ result.rows = <<>>
    /\ edits < MaxEdits
    /\ \E name \in {"help", "save_note", "skip", "quit", "confirm", "unknown"} :
          /\ cmd' = [name |-> name, row |-> 0, field |-> "", raw |-> <<>>]
          /\ pc' = IF name = "save_note" /\ result.notes # <<>> THEN "saved_note"
                   ELSE IF name \in {"skip", "quit", "confirm"} THEN "quit"
                   ELSE "review"
    /\ edits' = edits + 1
    /\ UNCHANGED <<text, config, today, setOrder, lines, parsed, merged, broadcast,
                   transaction_items, rows_of, result, raised, calls, firstResult>>

\* POST /api/edit on the rows that /api/parse returned or an earlier edit
\* left: a row index out of range or a value that does not parse answers with
\* an error and the rows as they are; else the field is set, and the partner
\* is looked up in the rows as edited
HandleEdit ==
    /\ pc \in {"done", "web"}
    /\ edits < MaxEdits
    /\ \/ UNCHANGED result
       \/ \E row_idx \in 1..Len(result.rows) :
          \E field \in {"date", "inv_type", "qty", "trans_type", "vehicle_sub_unit",
                         "notes", "batch"} :
          \E value \in
                 CASE field = "inv_type" -> Range(CfgGet(config, "items", <<>>))
                   [] field = "trans_type" -> Range(CfgGet(config, "transaction_types", <<>>))
                   [] field = "vehicle_sub_unit" ->
                         Range(CfgGet(config, "locations", <<>>))
                            \cup {CfgGet(config, "default_source", <<"warehouse">>)}
                   [] field = "qty" -> {Q(0), Q(7)}
                   [] field = "date" -> {<<2025, 3, 20>>}
                   [] field = "batch" -> {2}
                   [] field = "notes" -> {<<"checked">>} :
             LET Mirror(edited, partner_idx) ==
                     IF partner_idx = 0 THEN edited
                     ELSE IF field \in {"inv_type", "date", "trans_type", "batch"}
                     THEN [edited EXCEPT ![partner_idx][field] = value]
                     ELSE IF field = "qty"
                     THEN [edited EXCEPT ![partner_idx].qty = QNeg(value)]
                     ELSE edited
                 Updated(edited) == Mirror(edited, find_partner(edited, row_idx))
             IN result' = [result EXCEPT
                              !.rows = Updated([result.rows EXCEPT ![row_idx][field] = value])]
    /\ pc' = "web"
    /\ edits' = edits + 1
    /\ UNCHANGED <<cmd, text, config, today, setOrder, lines, parsed, merged, broadcast,
                   transaction_items, rows_of, raised, calls, firstResult>>

\* POST /api/confirm on the rows that /api/parse returned or an edit left:
\* _container and _raw_qty are popped from every row, and the rows are
\* formatted for the clipboard
HandleConfirm ==
    /\ pc \in {"done", "web"}
    /\ edits < MaxEdits
    /\ result' = [result EXCEPT
                     !.rows = [i \in 1..Len(@) |->
                                  [@[i] EXCEPT !._container = None, !._raw_qty = None]]]
    /\ pc' = "web_confirmed"
    /\ edits' = edits + 1
    /\ UNCHANGED <<cmd, text, config, today, setOrder, lines, parsed, merged, broadcast,
                   transaction_items, rows_of, raised, calls, firstResult>>

Next ==
    \/ Split
    \/ ParseLines
    \/ MergeLines
    \/ BroadcastContext
    \/ GenerateResult
    \/ ParseAgain

Spec == Init /\ [][Next]_vars

SpecCfg == InitCfg /\ [][Next]_vars

SpecMerge == InitMerge /\ [][Next]_vars

\* one call of parse() and the review of its result
NextReview ==
    \/ Split
    \/ ParseLines
    \/ MergeLines
    \/ BroadcastContext
    \/ GenerateResult
    \/ ReviewLoop
    \/ EditField
    \/ DeleteRow
    \/ AddRow
    \/ Confirm
    \/ Quit
    \/ Retry
    \/ OtherCommand
    \/ EmptyRows
    \/ HandleEdit
    \/ HandleConfirm

SpecReview == InitReview /\ [][NextReview]_vars

\* the review of a message of one line: a transfer, a row with no location,
\* rows whose container was not converted, and a note with no rows
InitCommands ==
    InitWith({<<Lines.ByC>>, <<Lines.Cucumbers>>, <<Lines.Pending>>, <<Lines.Note>>},
             {StdConfig})

SpecCommands == InitCommands /\ [][NextReview]_vars

(***************************************************************************)
(* fuzzy_resolve(text, candidates, aliases), the resolver that the editors  *)
(* call with the names of the config.  A call is one step: the text is the  *)
(* one line of text, candidates and aliases are config.items and            *)
(* config.aliases, and the pair it returns is result.                       *)
(***************************************************************************)
\* cutoff=0.6, the default every caller uses
DefaultCutoff == 60

\* the alias tier tried before the candidates
fuzzy_resolveAliasFirst(toks, candidates, aliases) ==
    LET IsExact(c) == NameStr(c) = TextLower(toks)
        IsAlias(al) == NameStr(al.key) = TextLower(toks)
        Hit(name, kind) == [name |-> name, match_type |-> kind]
        Fuzzy(r) == IF r = None THEN Hit(None, "none") ELSE Hit(r, "fuzzy")
        Close(close) ==
            IF close = <<>> THEN Hit(None, "none")
            ELSE Fuzzy(_resolve_match(close[1], candidates, aliases))
        Exact(c) ==
            IF c # <<>> THEN Hit(c[1], "exact")
            ELSE Close(get_close_matches(TextLower(toks), ItemTargets(candidates, aliases),
                                         IF Len(TextLower(toks)) <= 4
                                         THEN (IF DefaultCutoff > 80 THEN DefaultCutoff ELSE 80)
                                         ELSE DefaultCutoff))
        Alias(al) ==
            IF al # <<>> THEN Hit(al[1].target, "alias")
            ELSE Exact(FirstOf(SelectSeq(candidates, IsExact)))
    IN IF toks = <<>> THEN Hit(None, "none")
       ELSE Alias(FirstOf(SelectSeq(aliases, IsAlias)))

\* (canonical_name, match_type); (None, None) is name None with type "none"
fuzzy_resolve(toks, candidates, aliases) ==
    LET IsExact(c) == NameStr(c) = TextLower(toks)
        IsAlias(al) == NameStr(al.key) = TextLower(toks)
        Hit(name, kind) == [name |-> name, match_type |-> kind]
        \* 3. fuzzy match against candidates + alias keys, resolved back to canonical
        Fuzzy(r) == IF r = None THEN Hit(None, "none") ELSE Hit(r, "fuzzy")
        Close(close) ==
            IF close = <<>> THEN Hit(None, "none")
            ELSE Fuzzy(_resolve_match(close[1], candidates, aliases))
        \* 2. exact alias match
        Alias(al) ==
            IF al # <<>> THEN Hit(al[1].target, "alias")
            ELSE Close(get_close_matches(TextLower(toks), ItemTargets(candidates, aliases),
                                         IF Len(TextLower(toks)) <= 4
                                         THEN (IF DefaultCutoff > 80 THEN DefaultCutoff ELSE 80)
                                         ELSE DefaultCutoff))
        \* 1. exact match against candidates
        Exact(c) ==
            IF c # <<>> THEN Hit(c[1], "exact")
            ELSE Alias(FirstOf(SelectSeq(aliases, IsAlias)))
    IN IF toks = <<>> THEN Hit(None, "none")
       ELSE Exact(FirstOf(SelectSeq(candidates, IsExact)))

\* the texts, candidate lists and alias dicts the resolver is called with
ResolveInputs ==
    [texts |-> {<<>>, <<W("cucumbers")>>, <<W("cucumber")>>, <<W("carrots")>>, <<W("spuds")>>,
                <<W("spaghetti")>>, <<W("spaghetti"), W("noodles")>>, <<W("L")>>, <<W("bags")>>,
                <<W("small")>>, <<W("small"), W("boxes")>>, <<W("hello")>>, <<W("out")>>},
     candidates |-> {<<>>,
                     <<<<"cucumbers">>, <<"carrots">>>>,
                     <<<<"small", "potatoes">>, <<"spaghetti">>, <<"L">>>>,
                     <<<<"bag">>, <<"box">>, <<"small", "box">>, <<"got">>>>},
     aliases |-> {<<>>,
                  StdConfig.aliases,
                  <<[key |-> <<"cucumbers">>, target |-> <<"carrots">>],
                    [key |-> <<"spuds">>, target |-> <<"small", "potatoes">>]>>}]

InitResolve ==
    /\ text \in {<<t>> : t \in ResolveInputs.texts}
    /\ config \in {[items |-> c, aliases |-> a] :
                      c \in ResolveInputs.candidates, a \in ResolveInputs.aliases}
    /\ today = Today
    /\ setOrder = <<>>
    /\ pc = "resolve"
    /\ lines = <<>>
    /\ parsed = <<>>
    /\ merged = <<>>
    /\ broadcast = <<>>
    /\ transaction_items = <<>>
    /\ rows_of = <<>>
    /\ result = EmptyResult
    /\ raised = "none"
    /\ calls = 1
    /\ firstResult = EmptyResult
    /\ edits = 0
    /\ cmd = [name |-> "none", row |-> 0, field |-> "", raw |-> <<>>]

\* resolved, match_type = fuzzy_resolve(text, candidates, aliases)
Resolve ==
    /\ pc = "resolve"
    /\ result' = fuzzy_resolve(text[1], config.items, config.aliases)
    /\ pc' = "resolved"
    /\ UNCHANGED <<cmd, edits, text, config, today, setOrder, lines, parsed, merged, broadcast,
                   transaction_items, rows_of, raised, calls, firstResult>>

SpecResolve == InitResolve /\ [][Resolve]_vars

(***************************************************************************)
(* Properties of one call of parse().  The records are followed through    *)
(* the call by src, the input lines a record was parsed from, and folded,  *)
(* the lines Rule B applied to it.                                          *)
(***************************************************************************)
\* the default source of the config of the call
DefaultSource == CfgGet(config, "default_source", <<"warehouse">>)

\* the non-zero-sum types of the call: those of the config, or the default set
NonZeroSum == CfgGet(config, "non_zero_sum_types", NonZeroSumDefault)

\* the quantity the row generator works with: 1 when the record has none
QtyOf(item) == IF item.qty # None THEN item.qty ELSE Q(1)

\* the record k of the merged sequence accounts for input line i
AccountsFor(k, i) ==
    LET class == Classify(broadcast[k])
    IN \/ /\ class = "transaction"
          /\ i \in Range(broadcast[k].src) \cup broadcast[k].folded
          /\ \E j \in 1..Len(rows_of) :
                /\ transaction_items[j].src = broadcast[k].src
                /\ rows_of[j] # <<>>
       \/ /\ class = "note"
          /\ i \in Range(broadcast[k].src)
          /\ broadcast[k].raw \in Range(result.notes)
       \/ /\ class = "unparseable"
          /\ i \in Range(broadcast[k].src)
          /\ broadcast[k].raw \in Range(result.unparseable)
       \/ /\ class = "context"
          /\ i \in Range(broadcast[k].src)
          /\ \/ merged[k].location # None
             \/ merged[k].trans_type # None
             \/ merged[k].date # None

\* C1: when parse returns, every non-blank input line is accounted for in
\* one of rows, notes and unparseable: it is (part of) a record that produced
\* rows, directly or by Rule A or folded onto it by Rule B, or its raw text is
\* a note or an unparseable entry, or it is a header whose own location, type
\* or date was there to broadcast.  No line disappears.
C1_EveryLineAccountedFor ==
    pc = "done" =>
        \A i \in 1..Len(lines) : \E k \in 1..Len(broadcast) : AccountsFor(k, i)

\* the record is a transfer: item resolved, location known and not the
\* default source, type not non-zero-sum
IsTransfer(item) ==
    /\ item.has_item
    /\ item.location # None
    /\ item.location # DefaultSource
    /\ item.trans_type \notin NonZeroSum

\* C2: a record with a resolved item, a known location other than the default
\* source and a type outside the non-zero-sum set yields exactly two rows that
\* share batch, item, date, type and notes; the first has quantity -abs(qty),
\* the second +abs(qty), so the two are exact negatives.
C2_TransferPair ==
    pc = "done" =>
        \A k \in 1..Len(transaction_items) :
            IsTransfer(transaction_items[k]) =>
                /\ Len(rows_of[k]) = 2
                /\ \A f \in {"batch", "inv_type", "date", "trans_type", "notes"} :
                      rows_of[k][1][f] = rows_of[k][2][f]
                /\ rows_of[k][1].batch = transaction_items[k].batch
                /\ rows_of[k][1].inv_type = transaction_items[k].item
                /\ rows_of[k][2].qty = QAbs(QtyOf(transaction_items[k]))
                /\ rows_of[k][1].qty[1] = -rows_of[k][2].qty[1]
                /\ rows_of[k][1].qty[2] = rows_of[k][2].qty[2]
                /\ rows_of[k][1].qty[1] <= 0

\* a transfer with a non-zero quantity has produced its pair of rows
C2_Witness ==
    /\ pc = "done"
    /\ \E k \in 1..Len(transaction_items) :
          /\ IsTransfer(transaction_items[k])
          /\ transaction_items[k].qty # None
          /\ Len(rows_of[k]) = 2
          /\ rows_of[k][1].qty[1] < 0

\* twice the quantity, a whole number (quantities are whole or halves)
Twice(q) == q[1] * (2 \div q[2])

RECURSIVE SumTwice(_)
\* twice the sum of the quantities of the rows
SumTwice(rows) == IF rows = <<>> THEN 0 ELSE Twice(Head(rows).qty) + SumTwice(Tail(rows))

\* the rows of the result that carry batch number b
RowsOfBatch(b) == LET In(row) == row.batch = b IN SelectSeq(result.rows, In)

\* C3: in every parse result, the quantities of all rows that carry a batch
\* number sum to exactly 0 when that batch holds the rows of at least one
\* transfer record.
C3_TransferBatchSumsToZero ==
    pc = "done" =>
        \A k \in 1..Len(transaction_items) :
            IsTransfer(transaction_items[k]) =>
                SumTwice(RowsOfBatch(transaction_items[k].batch)) = 0

\* C4: a record with a resolved item whose type, after merging and
\* broadcasting, is in non_zero_sum_types yields exactly one row, with the
\* quantity as extracted (not negated) and the record's location, or the
\* default source when the record has none.
C4_NonZeroSumSingleRow ==
    pc = "done" =>
        \A k \in 1..Len(transaction_items) :
            transaction_items[k].trans_type \in NonZeroSum =>
                /\ Len(rows_of[k]) = 1
                /\ rows_of[k][1].qty = QtyOf(transaction_items[k])
                /\ rows_of[k][1].trans_type = transaction_items[k].trans_type
                /\ rows_of[k][1].vehicle_sub_unit =
                      IF transaction_items[k].location # None
                      THEN transaction_items[k].location
                      ELSE DefaultSource

\* a non-zero-sum record without a location has produced its row, at the
\* default source
C4_Witness ==
    /\ pc = "done"
    /\ \E k \in 1..Len(transaction_items) :
          /\ transaction_items[k].trans_type \in NonZeroSum
          /\ transaction_items[k].location = None
          /\ transaction_items[k].qty # None
          /\ rows_of[k][1].vehicle_sub_unit = DefaultSource

\* C5: parse never raises, whatever the text and the config (the empty
\* config and configs that lack a key included): every call returns its
\* three lists.
C5_ParseNeverRaises == raised = "none" /\ pc # "raised"

\* C6: parse is deterministic: a later call with the same text, config and
\* today returns the rows, notes and unparseable of the first call, also when
\* containers of equal length match the same text (no dependence on the
\* iteration order of a set).
C6_Deterministic == (pc = "done" /\ calls > 1) => result = firstResult

\* the batch numbers of the rows of the result, in output order
RowBatches == [i \in 1..Len(result.rows) |-> result.rows[i].batch]

\* C7: in a result with at least one row the batch numbers of the rows, in
\* output order, start at 1, never decrease and grow by at most 1 from one
\* row to the next, so the batch numbers used are exactly 1..k for a k >= 1.
C7_BatchesContiguous ==
    (pc = "done" /\ result.rows # <<>>) =>
        /\ RowBatches[1] = 1
        /\ \A i \in 1..(Len(RowBatches) - 1) :
              RowBatches[i + 1] - RowBatches[i] \in {0, 1}
        /\ \E n \in 1..Len(RowBatches) : Range(RowBatches) = 1..n

\* a result whose rows are in three batches
C7_Witness ==
    /\ pc = "done"
    /\ result.rows # <<>>
    /\ Range(RowBatches) = 1..3

\* the last value of field f among records 1..k-1 of the item-bearing
\* records that is not null; None if there is none
PrevNonNull(k, f) ==
    LET set == {j \in 1..(k - 1) : transaction_items[j][f] # None}
    IN IF set = {} THEN None
       ELSE transaction_items[CHOOSE j \in set : \A x \in set : x <= j][f]

\* field f of record k is not null and differs from the previous non-null one
Changed(k, f) ==
    /\ transaction_items[k][f] # None
    /\ PrevNonNull(k, f) # None
    /\ transaction_items[k][f] # PrevNonNull(k, f)

\* C8: the first item-bearing record gets batch 1; a later record gets the
\* batch of the record before it plus exactly 1 when its non-null location
\* differs from the previous non-null location, or, the location not having
\* changed, when its non-null date differs from the previous non-null date,
\* and the same batch otherwise; a change of both counts once.
C8_BatchAssignment ==
    (pc = "done" /\ transaction_items # <<>>) =>
        /\ transaction_items[1].batch = 1
        /\ \A k \in 2..Len(transaction_items) :
              transaction_items[k].batch =
                  transaction_items[k - 1].batch
                    + (IF Changed(k, "location") \/ Changed(k, "date") THEN 1 ELSE 0)

\* a record whose location and date both differ from the previous ones has
\* got the next batch
C8_Witness ==
    /\ pc = "done"
    /\ \E k \in 2..Len(transaction_items) :
          /\ Changed(k, "location")
          /\ Changed(k, "date")
          /\ transaction_items[k].batch = transaction_items[k - 1].batch + 1

\* the fields _broadcast_context spreads
ContextFields == {"location", "trans_type", "date"}

\* the records of the merged sequence that state field f themselves
Stating(f) == {j \in 1..Len(merged) : merged[j][f] # None}

\* the nearest record at or before k that states f, 0 if there is none
NearestStating(k, f) ==
    LET set == {j \in Stating(f) : j <= k}
    IN IF set = {} THEN 0 ELSE CHOOSE j \in set : \A x \in set : x <= j

\* the last record of the whole sequence that states f, 0 if there is none
LastStating(f) == NearestStating(Len(merged), f)

\* record k carries, after broadcasting, field f as record j stated it (the
\* direction goes with the location)
CarriesFrom(k, j, f) ==
    /\ broadcast[k][f] = merged[j][f]
    /\ f = "location" => broadcast[k].direction = merged[j].direction

\* _broadcast_context has run on the merged sequence
Broadcast == pc \in {"generate", "done"}

\* C9: after _broadcast_context a record that did not state a location (with
\* its direction), type or date itself but comes after a record that states
\* it carries the value of the nearest such record before it, and a record
\* that states a field keeps its own value.
C9_ForwardBroadcast ==
    Broadcast =>
        \A f \in ContextFields : \A k \in 1..Len(merged) :
            NearestStating(k, f) # 0 => CarriesFrom(k, NearestStating(k, f), f)

\* a record without a location of its own comes after two records that state
\* different locations
C9_Witness ==
    /\ Broadcast
    /\ \E k \in 1..Len(merged) :
          /\ merged[k].location = None
          /\ NearestStating(k, "location") # 0
          /\ \E j \in Stating("location") :
                /\ j < NearestStating(k, "location")
                /\ merged[j].location # merged[NearestStating(k, "location")].location
          /\ broadcast[k].location = merged[NearestStating(k, "location")].location

\* C10: if a record of the merged sequence states a location (a type, a
\* date), every record has that field set after _broadcast_context, and the
\* records with no stated value at or before them carry the value stated
\* last in the whole sequence.
C10_BackwardFill ==
    Broadcast =>
        \A f \in ContextFields :
            LastStating(f) # 0 =>
                \A k \in 1..Len(merged) :
                    /\ broadcast[k][f] # None
                    /\ NearestStating(k, f) = 0 => CarriesFrom(k, LastStating(f), f)

\* a record before every stated location has got the location stated last,
\* which is not the one stated first
C10_Witness ==
    /\ Broadcast
    /\ \E k \in 1..Len(merged) :
          /\ NearestStating(k, "location") = 0
          /\ LastStating("location") # 0
          /\ \E j \in Stating("location") :
                merged[j].location # merged[LastStating("location")].location
          /\ broadcast[k].location = merged[LastStating("location")].location

\* unit_conversions[item][container] of the config of the call: the factors
\* stated for the pair, none or one
FactorsFor(item, container) ==
    LET convs == CfgGet(config, "unit_conversions", <<>>)
    IN UNION {{convs[i].convs[j].factor :
                  j \in {j \in 1..Len(convs[i].convs) : convs[i].convs[j].key = container}} :
              i \in {i \in 1..Len(convs) : convs[i].key = item}}

\* the fractions p and q are the same number up to the sign
SameAmount(p, q) == QAbs(p)[1] * q[2] = QAbs(q)[1] * p[2]

\* every row of transaction item i has quantity q up to the sign
RowsCarry(i, q) == \A k \in 1..Len(rows_of[i]) : SameAmount(rows_of[i][k].qty, q)

\* C11: a record with an item, a container and a quantity n for which
\* unit_conversions[item][container] = f exists yields rows with |qty| = n * f
\* and no pending-container marker; a record whose container has no factor
\* for its item yields rows with |qty| = n and the marker (_container and
\* _raw_qty).  This holds for records of one line and for records merged from
\* a quantity line and an item line, and a factor is applied at most once.
C11_ContainerConversion ==
    pc = "done" =>
        \A i \in 1..Len(transaction_items) :
            LET it == transaction_items[i]
            IN /\ Len(it.converted) <= 1
               /\ it.converted # <<>> =>
                     /\ FactorsFor(it.item, it.converted[1].container) # {}
                     /\ \A f \in FactorsFor(it.item, it.converted[1].container) :
                           RowsCarry(i, <<it.converted[1].qty[1] * f, it.converted[1].qty[2]>>)
                     /\ \A k \in 1..Len(rows_of[i]) :
                           rows_of[i][k]._container = None /\ rows_of[i][k]._raw_qty = None
               /\ (it.converted = <<>> /\ it.container # None /\ it.qty # None) =>
                     /\ FactorsFor(it.item, it.container) = {}
                     /\ RowsCarry(i, it.qty)
                     /\ \A k \in 1..Len(rows_of[i]) :
                           /\ rows_of[i][k]._container = it.container
                           /\ rows_of[i][k]._raw_qty = it.qty

\* a record merged from a quantity line and an item line was converted, and
\* another record of the message keeps a container without a factor
C11_Witness ==
    /\ pc = "done"
    /\ \E i \in 1..Len(transaction_items) :
          /\ Len(transaction_items[i].src) = 2
          /\ transaction_items[i].converted # <<>>
          /\ rows_of[i] # <<>>
    /\ \E i \in 1..Len(transaction_items) :
          /\ transaction_items[i].converted = <<>>
          /\ transaction_items[i].container # None
          /\ rows_of[i] # <<>>

\* the locations of the rows of transaction item i with a quantity below
\* zero (sign = -1) or above zero (sign = 1)
LocationsOf(i, sign) ==
    {rows_of[i][k].vehicle_sub_unit :
        k \in {k \in 1..Len(rows_of[i]) : rows_of[i][k].qty[1] * sign > 0}}

\* the record of the merged sequence that transaction item i was, before
\* broadcasting
Stated(i) == {k \in 1..Len(merged) : merged[k].src = transaction_items[i].src}

\* C12: the negative row of a transfer is at the default source and the
\* positive row at the named location when the direction is 'to' or 'by';
\* with the direction 'from', stated on the line or inherited from a header
\* by broadcasting, the named location has the negative row and the default
\* source the positive one.
C12_TransferDirection ==
    pc = "done" =>
        \A i \in 1..Len(transaction_items) :
            LET it == transaction_items[i]
            IN IsTransfer(it) =>
                  /\ it.direction \in {"to", "by", "from"}
                  /\ it.direction \in {"to", "by"} =>
                        /\ LocationsOf(i, -1) = {DefaultSource}
                        /\ LocationsOf(i, 1) = {it.location}
                  /\ it.direction = "from" =>
                        /\ LocationsOf(i, -1) = {it.location}
                        /\ LocationsOf(i, 1) = {DefaultSource}

\* a transfer that inherited 'from' and its location from a header has its
\* negative row at that location, and a transfer 'by' a location has its
\* positive row there
C12_Witness ==
    /\ pc = "done"
    /\ \E i \in 1..Len(transaction_items) :
          /\ IsTransfer(transaction_items[i])
          /\ transaction_items[i].direction = "from"
          /\ \E k \in Stated(i) : merged[k].location = None
          /\ LocationsOf(i, -1) = {transaction_items[i].location}
    /\ \E i \in 1..Len(transaction_items) :
          /\ IsTransfer(transaction_items[i])
          /\ transaction_items[i].direction = "by"
          /\ LocationsOf(i, 1) = {transaction_items[i].location}

\* _merge_lines has run on the parsed lines
Merged == pc \in {"broadcast", "generate", "done"}

\* line n has a quantity and no item
QtyOnly(n) == parsed[n].has_qty /\ ~parsed[n].has_item

\* lines n and n + 1 are a quantity line without leftover text and an item
\* line without a quantity
FitsRuleA(n) ==
    /\ n < Len(parsed)
    /\ QtyOnly(n)
    /\ parsed[n]._unmatched_text = <<>>
    /\ parsed[n + 1].has_item /\ ~parsed[n + 1].has_qty

\* the records of the merged sequence that line n went into, as a line of the
\* record or folded onto it
RecordsOf(n) ==
    {m \in 1..Len(merged) : n \in Range(merged[m].src) \cup merged[m].folded}

\* record m of the merged sequence starts from quantity q and container c:
\* it has them, or a conversion factor was applied to them
StartsFrom(m, q, c) ==
    IF merged[m].converted = <<>> THEN merged[m].qty = q /\ merged[m].container = c
    ELSE merged[m].converted = <<[qty |-> q, container |-> c]>>

\* C13: lines N and N+1 are merged into one record exactly when N has a
\* quantity, no item and no leftover unmatched text and N+1 has an item and no
\* quantity; the merged record has the item of N+1 and the quantity, the
\* container and every other field of N, and both lines are consumed.  A
\* quantity-only line that cannot merge stays a record of its own and is
\* reported unparseable.
C13_RuleA ==
    Merged =>
        /\ \A n \in 1..Len(parsed) :
              FitsRuleA(n) <=> \E m \in 1..Len(merged) : merged[m].src = <<n, n + 1>>
        /\ \A m \in 1..Len(merged) :
              Len(merged[m].src) <= 2
        /\ \A m \in 1..Len(merged) :
              Len(merged[m].src) = 2 =>
                  LET n == merged[m].src[1]
                  IN /\ merged[m].src = <<n, n + 1>>
                     /\ merged[m].item = parsed[n + 1].item
                     /\ merged[m].item_raw = parsed[n + 1].item_raw
                     /\ merged[m].has_item
                     /\ StartsFrom(m, parsed[n].qty, parsed[n].container)
                     /\ \A f \in {"date", "location", "direction", "has_qty", "_unmatched_text"} :
                           merged[m][f] = parsed[n][f]
                     /\ merged[m].folded = {} =>
                           \A f \in {"trans_type", "notes_extra"} : merged[m][f] = parsed[n][f]
                     /\ merged[m].raw = parsed[n].raw \o parsed[n + 1].raw
                     /\ RecordsOf(n) = {m} /\ RecordsOf(n + 1) = {m}
        /\ \A n \in 1..Len(parsed) :
              (QtyOnly(n) /\ ~FitsRuleA(n)) =>
                  /\ \E m \in 1..Len(merged) : merged[m].src = <<n>> /\ ~merged[m].has_item
                  /\ pc = "done" =>
                        \E u \in 1..Len(result.unparseable) : result.unparseable[u] = parsed[n].raw

\* a quantity line with a container was merged with the item line after it,
\* and the quantity line before them, which could not merge, was reported
C13_Witness ==
    /\ pc = "done"
    /\ \E m \in 1..Len(merged) :
          /\ Len(merged[m].src) = 2
          /\ parsed[merged[m].src[1]].container # None
    /\ \E n \in 1..Len(parsed) :
          /\ QtyOnly(n) /\ ~FitsRuleA(n)
          /\ n < Len(parsed) /\ parsed[n + 1].has_qty
          /\ \E u \in 1..Len(result.unparseable) : result.unparseable[u] = parsed[n].raw

\* line n has a type or a notes fragment, no quantity, no item and no
\* location, and is not the first line
FitsRuleB(n) ==
    /\ n > 1
    /\ ~parsed[n].has_qty /\ ~parsed[n].has_item
    /\ parsed[n].trans_type # None \/ parsed[n].notes_extra # None
    /\ parsed[n].location = None

\* the records of the merged sequence made of lines before line n
EmittedBefore(n) == {m \in 1..Len(merged) : \A x \in Range(merged[m].src) : x < n}

\* the lines folded onto record m that state field f
FoldedStating(m, f) == {n \in merged[m].folded : parsed[n][f] # None}

\* C14: a line with a type or a notes fragment but no quantity, item or
\* location that is not the first is consumed, never a record of its own, and
\* folded onto the record emitted immediately before it: that record takes
\* the type only if it has none yet, and has the notes fragment attached.
C14_RuleB ==
    Merged =>
        /\ \A n \in 1..Len(parsed) :
              /\ FitsRuleB(n) <=> \E m \in 1..Len(merged) : n \in merged[m].folded
              /\ FitsRuleB(n) =>
                    /\ \A m \in 1..Len(merged) : n \notin Range(merged[m].src)
                    /\ EmittedBefore(n) # {}
                    /\ \A m \in EmittedBefore(n) :
                          n \in merged[m].folded <=> \A x \in EmittedBefore(n) : x <= m
        /\ \A m \in 1..Len(merged) :
              LET own == parsed[merged[m].src[1]]
                  typed == FoldedStating(m, "trans_type")
                  noted == FoldedStating(m, "notes_extra")
              IN /\ merged[m].trans_type =
                       IF own.trans_type # None \/ typed = {} THEN own.trans_type
                       ELSE parsed[CHOOSE n \in typed : \A x \in typed : n <= x].trans_type
                 /\ merged[m].notes_extra =
                       IF noted = {} THEN own.notes_extra
                       ELSE parsed[CHOOSE n \in noted : \A x \in noted : x <= n].notes_extra

\* two lines were folded onto an item record without a type: it has the type
\* of the first, not that of the second, and the notes fragment of the second
C14_Witness ==
    /\ Merged
    /\ \E m \in 1..Len(merged) : \E a, b \in merged[m].folded :
          /\ a < b
          /\ merged[m].has_item
          /\ parsed[merged[m].src[1]].trans_type = None
          /\ parsed[a].trans_type # None
          /\ parsed[b].trans_type # None
          /\ parsed[b].trans_type # parsed[a].trans_type
          /\ merged[m].trans_type = parsed[a].trans_type
          /\ parsed[b].notes_extra # None
          /\ merged[m].notes_extra = parsed[b].notes_extra

\* the number of entries of the sequence seq that equal x
Count(seq, x) == Cardinality({u \in 1..Len(seq) : seq[u] = x})

\* the records of the merged sequence with a quantity and no item
QtyNoItem == {m \in 1..Len(merged) : merged[m].has_qty /\ ~merged[m].has_item}

\* C15: a record that has a quantity but no resolved item after parsing and
\* merging yields no rows and exactly one unparseable entry, equal to its raw
\* text; rows come only from records that have an item.
C15_QtyWithoutItem ==
    pc = "done" =>
        /\ \A m \in QtyNoItem :
              /\ \A i \in 1..Len(transaction_items) : transaction_items[i].src # merged[m].src
              /\ Count(result.unparseable, merged[m].raw) =
                    Cardinality({x \in QtyNoItem : merged[x].raw = merged[m].raw})
        /\ \A i \in 1..Len(transaction_items) :
              /\ transaction_items[i].has_item
              /\ \E m \in 1..Len(merged) : merged[m].src = transaction_items[i].src
                                           /\ merged[m].has_item
        /\ Len(result.rows) = Len(Flatten(rows_of))
        /\ \A k \in 1..Len(result.rows) :
              \E m \in 1..Len(merged) : merged[m].has_item /\ merged[m].item = result.rows[k].inv_type

\* a quantity with a container word and no item, mostly letters, is reported
\* unparseable next to a record that has produced rows
C15_Witness ==
    /\ pc = "done"
    /\ result.rows # <<>>
    /\ \E m \in QtyNoItem :
          /\ merged[m].container # None
          /\ Count(result.unparseable, merged[m].raw) = 1

\* line n states, itself, what makes a record a header: a type with a
\* location or a date, a location with a date, or a location and no leftover
\* text
HeaderItself(n) ==
    \/ parsed[n].trans_type # None /\ (parsed[n].location # None \/ parsed[n].date # None)
    \/ parsed[n].location # None /\ parsed[n].date # None
    \/ parsed[n].location # None /\ parsed[n]._unmatched_text = <<>>

\* line n is free text: no quantity, no item, nothing that Rule B would fold
\* onto the record before it, not a header itself, and more than 30% of its
\* raw text alphabetic
FreeText(n) ==
    /\ ~parsed[n].has_qty /\ ~parsed[n].has_item
    /\ parsed[n].trans_type = None /\ parsed[n].notes_extra = None
    /\ ~HeaderItself(n)
    /\ _is_note(parsed[n])

\* C16: a free-text line is in result.notes with its raw text, also in a
\* message whose other lines state a location, a type or a date: what the line
\* inherits from other lines never makes it disappear.
C16_FreeTextIsNote ==
    pc = "done" =>
        \A n \in 1..Len(parsed) :
            FreeText(n) => Count(result.notes, parsed[n].raw) >= 1

\* the place in result.rows of row k of transaction item i
RowIndex(i, k) == Len(Flatten(SubSeq(rows_of, 1, i - 1))) + k

\* row idx of result.rows has a row of its batch and item with a quantity of
\* the opposite sign
HasOpposite(idx) ==
    \E i \in 1..Len(result.rows) :
        /\ i # idx
        /\ result.rows[i].batch = result.rows[idx].batch
        /\ result.rows[i].inv_type = result.rows[idx].inv_type
        /\ result.rows[i].qty[1] * result.rows[idx].qty[1] < 0

\* C17: for the two rows of a transfer pair with a non-zero quantity
\* find_partner returns the other row of the same record, also when the same
\* item is transferred more than once in one batch, so that the partner of
\* the partner is the row itself; for a row with quantity 0, or with no row of
\* its batch and item of the opposite sign, it returns None.
C17_PartnerOfPair ==
    pc = "done" =>
        /\ \A i \in 1..Len(transaction_items) :
              (Len(rows_of[i]) = 2 /\ rows_of[i][1].qty[1] # 0) =>
                  /\ find_partner(result.rows, RowIndex(i, 1)) = RowIndex(i, 2)
                  /\ find_partner(result.rows, RowIndex(i, 2)) = RowIndex(i, 1)
        /\ \A idx \in 1..Len(result.rows) :
              (result.rows[idx].qty[1] = 0 \/ ~HasOpposite(idx)) =>
                  find_partner(result.rows, idx) = 0

\* review_loop is editing the rows that parse returned
Reviewing == pc = "review"

\* C18: the review loop keeps the double-entry invariant: after any sequence
\* of field edits the two rows of every generated transfer pair share batch
\* and item and have exactly negated quantities.
C18_ReviewKeepsPairs ==
    Reviewing =>
        \A i \in 1..Len(transaction_items) :
            Len(rows_of[i]) = 2 =>
                LET a == result.rows[RowIndex(i, 1)]
                    b == result.rows[RowIndex(i, 2)]
                IN /\ a.batch = b.batch
                   /\ a.inv_type = b.inv_type
                   /\ a.qty[1] * b.qty[2] = -b.qty[1] * a.qty[2]

\* line n reads "took X out of Y" and more
TookLine(n) ==
    /\ Len(lines[n]) >= 6
    /\ lines[n][1] = W("took") /\ lines[n][2].k = "n"
    /\ lines[n][3] = W("out") /\ lines[n][4] = W("of")
    /\ lines[n][5].k = "n"

\* the transaction items made of line n alone
ItemsOfLine(n) == {i \in 1..Len(transaction_items) : transaction_items[i].src = <<n>>}

\* C19: a line "took X out of Y <item>" gives a record with quantity X, notes
\* "had Y total" and the item resolved from the remainder, and sets no type,
\* location or date itself: the row of a one-line message has type and
\* location unset, and in a longer message the record has a type, a location
\* or a date only as another line states it.
C19_TookOutOf ==
    /\ Merged =>
          \A n \in 1..Len(parsed) :
              TookLine(n) =>
                  /\ parsed[n].qty = <<lines[n][2].a, 1>>
                  /\ parsed[n].has_qty
                  /\ parsed[n].notes_extra = <<"had", ToString(lines[n][5].a), "total">>
                  /\ parsed[n].item = _match_item(SubSeq(lines[n], 6, Len(lines[n])), config).item
                  /\ parsed[n].trans_type = None
                  /\ parsed[n].location = None
                  /\ parsed[n].date = None
    /\ pc = "done" =>
          \A n \in 1..Len(parsed) :
              TookLine(n) =>
                  \A i \in ItemsOfLine(n) :
                      /\ Len(lines) = 1 =>
                            /\ Len(rows_of[i]) = 1
                            /\ rows_of[i][1].trans_type = None
                            /\ rows_of[i][1].vehicle_sub_unit = None
                      /\ \A f \in ContextFields :
                            transaction_items[i][f] # None =>
                                \E j \in 1..Len(parsed) :
                                    j # n /\ parsed[j][f] = transaction_items[i][f]

\* a "took" line with a resolved item has got, in a message of several
\* lines, the location of another line, and its rows carry the quantity and
\* the notes of the line
C19_Witness ==
    /\ pc = "done"
    /\ \E n \in 1..Len(parsed) :
          /\ TookLine(n)
          /\ parsed[n].has_item
          /\ \E i \in ItemsOfLine(n) :
                /\ transaction_items[i].location # None
                /\ transaction_items[i].trans_type = None
                /\ Len(rows_of[i]) = 2
                /\ rows_of[i][2].qty = parsed[n].qty
                /\ rows_of[i][2].notes = parsed[n].notes_extra

\* the aliases of the config whose key _extract_location appends to all_locs
LocationAliasKeys ==
    {al.key : al \in {al \in Range(CfgGet(config, "aliases", <<>>)) :
                         al.target \in Range(CfgGet(config, "locations", <<>>))
                                          \cup {DefaultSource}}}

\* C20: parse never mutates the config it is given: no step of a call
\* changes the value of any key of the config, whatever the text.
C20_ConfigNotMutated == [][config' = config]_vars

\* a call has returned whose lines went through _extract_location under a
\* config with an alias of a location
C20_Witness ==
    /\ pc = "done"
    /\ LocationAliasKeys # {}
    /\ \E n \in 1..Len(lines) : ~TookLine(n)

\* the date a date-shaped token spells in its form
SpelledDate(t) ==
    CASE t.s = "dot" -> <<FullYear(t.c), t.b, t.a>>
      [] t.s = "slash" -> <<FullYear(t.c), t.a, t.b>>
      [] t.s = "six" -> <<2000 + t.c, t.b, t.a>>
      [] t.s = "iso" -> <<t.a, t.b, t.c>>

\* the four date formats in the order they are tried
DateForms == <<"dot", "slash", "six", "iso">>

\* the position of the date the four formats find in a line, tried in order
\* from format k on: the first token of a format counts when it spells a
\* calendar date, and the next format is tried when it does not; 0 when no
\* format finds a date
RECURSIVE DateTokenFrom(_, _)
DateTokenFrom(toks, k) ==
    IF k > Len(DateForms) THEN 0
    ELSE LET i == MinOr0({j \in 1..Len(toks) : toks[j].k = "d" /\ toks[j].s = DateForms[k]})
             Spells(d) == ValidDate(d[1], d[2], d[3])
         IN IF i # 0 /\ Spells(SpelledDate(toks[i])) THEN i ELSE DateTokenFrom(toks, k + 1)

\* line n goes through the date extractor: it is not a "took X out of Y" line
DatedLine(n) == ~TookLine(n)

\* C21: the date extractor tries DD.MM.YY(YY), MM/DD/YY(YY), six digits DDMMYY
\* and ISO YYYY-MM-DD in this order; a match that is no calendar date counts as
\* no match and the next format is tried; the first valid match is the date of
\* the line and its text is removed from the line; a line with no valid date
\* has no date, and the rows of a one-line message then carry today's date.
C21_DateFormats ==
    /\ Merged =>
          \A n \in 1..Len(parsed) :
              DatedLine(n) =>
                  LET toks == StripSign(lines[n])
                      i == DateTokenFrom(toks, 1)
                  IN IF i = 0
                     THEN /\ parsed[n].date = None
                          /\ _extract_date(toks).remaining = toks
                     ELSE /\ parsed[n].date = SpelledDate(toks[i])
                          /\ _extract_date(toks).remaining = RemoveSpan(toks, i, i)
    /\ pc = "done" /\ Len(lines) = 1 /\ DatedLine(1) /\ DateTokenFrom(StripSign(lines[1]), 1) = 0 =>
          \A i \in 1..Len(rows_of) : \A k \in 1..Len(rows_of[i]) : rows_of[i][k].date = today

\* line n has no digit at all and no "half": words only, after a leading sign
NoInteger(n) ==
    \A j \in 1..Len(StripSign(lines[n])) :
        StripSign(lines[n])[j].k = "w" /\ StripSign(lines[n])[j].s # "half"

\* the containers line n starts with and that have a factor for the item of
\* its record
LeadingContainers(n) ==
    LET toks == StripSign(lines[n])
        convs == CfgGet(config, "unit_conversions", <<>>)
        ConvKeys == UNION {{convs[i].convs[j].key : j \in 1..Len(convs[i].convs)} : i \in 1..Len(convs)}
    IN {c \in ConvKeys : /\ c \notin {<<>>, <<"base_unit">>}
                         /\ Len(c) < Len(toks)
                         /\ \A j \in 1..Len(c) : toks[j].s = c[j]
                         /\ FactorsFor(parsed[n].item, c) # {}}

\* C22: a line with no integer has quantity 1 by default, and a bare
\* container is still tried: a line that resolves a known item and has no
\* number gives rows with |qty| = 1, and a line "<container> <item>" whose
\* container has the factor f for the item gives rows with |qty| = f and no
\* pending-container marker.
C22_DefaultQuantity ==
    pc = "done" =>
        \A n \in 1..Len(parsed) :
            (NoInteger(n) /\ parsed[n].has_item) =>
                \A i \in ItemsOfLine(n) :
                    /\ LeadingContainers(n) = {} => RowsCarry(i, Q(1))
                    /\ \A c \in LeadingContainers(n) :
                          /\ \A f \in FactorsFor(parsed[n].item, c) : RowsCarry(i, Q(f))
                          /\ \A k \in 1..Len(rows_of[i]) :
                                rows_of[i][k]._container = None /\ rows_of[i][k]._raw_qty = None

\* the lower-cased text the resolver was called with
ResolveText == TextLower(text[1])

\* the candidates and the aliases whose key the text equals, ignoring case
ExactCandidates == {c \in Range(config.items) : NameStr(c) = ResolveText}
ExactAliases == {al \in Range(config.aliases) : NameStr(al.key) = ResolveText}

\* the lower-cased candidates and alias keys that are similar enough to the
\* text: at least 0.6, and 0.8 for a text of four characters or fewer
CloseTargets ==
    {m \in {NameStr(c) : c \in Range(config.items)}
              \cup {NameStr(al.key) : al \in Range(config.aliases)} :
        RatioAtLeast(ResolveText, m, IF Len(ResolveText) <= 4 THEN 80 ELSE 60)}

\* the names a fuzzy hit on m stands for: the targets of the aliases with
\* that key, and the candidates of that name when no alias has it
ResolvesTo(m) ==
    IF \E al \in Range(config.aliases) : NameStr(al.key) = m
    THEN {al.target : al \in {al \in Range(config.aliases) : NameStr(al.key) = m}}
    ELSE {c \in Range(config.items) : NameStr(c) = m}

Triggers ==
    LET action_verbs == CfgGet(config, "action_verbs", <<>>)
    IN UNION {{[words |-> v, type |-> e.key] : v \in Range(e.verbs)} : e \in Range(action_verbs)}
         \cup {[words |-> t, type |-> t] : t \in Range(CfgGet(config, "transaction_types", <<>>))}
         \cup {[words |-> al.key, type |-> al.target] : al \in Range(TypeAliases(config))}

\* the triggers that occur in line n as whole words
TriggersIn(n) == {e \in Triggers : FindName(StripSign(lines[n]), e.words) # 0}

\* C24: the verb extractor searches all triggers (verbs of every type, type
\* names, aliases of a type) longest first: a line in which triggers occur
\* gets the type of a longest one of them, whatever the order of the types in
\* the config, and never a type found by fuzzy matching.
C24_LongestTrigger ==
    Merged =>
        \A n \in 1..Len(parsed) :
            (DatedLine(n) /\ TriggersIn(n) # {}) =>
                \E e \in TriggersIn(n) :
                    /\ \A o \in TriggersIn(n) : Len(NameStr(o.words)) <= Len(NameStr(e.words))
                    /\ parsed[n].trans_type = e.type

\* C25: the edit handler of the web interface keeps the double-entry
\* invariant as the terminal editor does: after any sequence of /api/edit
\* requests, also ones that change the item, the batch or the sign of the
\* quantity, the two rows of every generated transfer pair share batch and
\* item and have exactly negated quantities.
C25_WebEditKeepsPairs ==
    pc = "web" =>
        \A i \in 1..Len(transaction_items) :
            Len(rows_of[i]) = 2 =>
                LET a == result.rows[RowIndex(i, 1)]
                    b == result.rows[RowIndex(i, 2)]
                IN /\ a.batch = b.batch
                   /\ a.inv_type = b.inv_type
                   /\ SameAmount(a.qty, b.qty)
                   /\ a.qty[1] * b.qty[1] <= 0

\* what was typed for the field is no value of it: no number or NxN for a
\* quantity, no calendar date for a date, no integer for a batch
InvalidValue(field, raw) ==
    \/ field = "qty" /\ ~(Len(raw) = 1 /\ raw[1].k \in {"n", "x"})
    \/ field = "date" /\ ~(/\ Len(raw) = 1
                           /\ raw[1].k = "d"
                           /\ ValidDate(SpelledDate(raw[1])[1], SpelledDate(raw[1])[2],
                                        SpelledDate(raw[1])[3]))
    \/ field = "batch" /\ ~(Len(raw) = 1 /\ raw[1].k = "n")

\* the command c, read when the rows are rows, is one the review refuses: an
\* edit that is cancelled or whose value is invalid, an edit or a delete of a
\* row that is not there, a text that is no command, a confirm whose warning
\* was not answered with yes
RefusedCommand(c, rows) ==
    \/ c.name = "edit" /\ (c.row \notin 1..Len(rows) \/ c.raw = <<>> \/ InvalidValue(c.field, c.raw))
    \/ c.name = "delete" /\ c.row \notin 1..Len(rows)
    \/ c.name = "unknown"
    \/ c.name = "confirm" /\ c.raw = <<W("n")>>

\* C26: in the review loop a cancelled edit, an invalid quantity, date or
\* batch, an edit or delete of a row number outside 1..len(rows), an unknown
\* command and a declined incomplete-rows warning leave every row unchanged
\* and keep the loop in review.
C26_RefusedCommands ==
    [][(pc = "review" /\ RefusedCommand(cmd', result.rows))
          => (pc' = "review" /\ result' = result)]_vars

\* C27: the review loop never returns a confirmed outcome of no rows: while the
\* list of rows is empty, confirm, quit and skip return None, the only outcome
\* is the notes saved by save-note, which needs at least one note, and + leaves
\* one row under normal review.
C27_NoEmptyConfirm ==
    /\ [](pc = "confirmed" => result.rows # <<>>)
    /\ [][(pc = "review" /\ result.rows = <<>>)
            => /\ pc' \in {"review", "quit", "saved_note", "split"}
               /\ cmd'.name \in {"confirm", "quit", "skip"} => pc' = "quit"
               /\ pc' = "saved_note" => (cmd'.name = "save_note" /\ result.notes # <<>>)
               /\ pc' = "split" => cmd'.name = "retry"
               /\ cmd'.name = "add" => (pc' = "review" /\ Len(result'.rows) = 1)]_vars

\* c was typed after the one row of "4 cucumbers" had been deleted, and the
\* loop returned None
C27_Witness ==
    /\ pc = "quit"
    /\ cmd.name = "confirm"
    /\ result.rows = <<>>
    /\ firstResult.rows # <<>>

\* C28: the pending-container marker never survives confirmation: every row of
\* an outcome review_loop returns on confirm, and every row confirmed through
\* /api/confirm, has neither _container nor _raw_qty, whatever commands came
\* before and whether or not a conversion factor was typed.
C28_MarkersStripped ==
    pc \in {"confirmed", "web_confirmed"}
        => \A i \in 1..Len(result.rows) :
              result.rows[i]._container = None /\ result.rows[i]._raw_qty = None

\* "3 bags carrots" was parsed to a row with the marker, the rows were
\* confirmed, and the factor typed at the prompt was saved in the config
C28_Witness ==
    /\ pc = "confirmed"
    /\ cmd.name = "confirm"
    /\ \E i \in 1..Len(firstResult.rows) : firstResult.rows[i]._container # None
    /\ config # StdConfig
    /\ result.rows # <<>>

\* line n starts with + or -
SignedLine(n) == lines[n] # <<>> /\ lines[n][1].k = "sign"

\* the record made of the line, whatever the text it was made of
Unsigned(r) == [r EXCEPT !.raw = <<>>, !.src = <<>>]

\* C29: a leading + or - of a line does not affect the output: the record of
\* the line is the record of the line without the sign, the quantity of every
\* record is non-negative, so a row with a negative quantity is the first row
\* of a pair whose second row has the quantity negated (the source side of a
\* transfer), and a row that is alone for its record has a quantity >= 0.
C29_SignIgnored ==
    pc = "done" =>
        /\ \A n \in 1..Len(lines) :
              SignedLine(n) =>
                 Unsigned(parsed[n]) = Unsigned(_parse_line(Tail(lines[n]), config, setOrder).r)
        /\ \A n \in 1..Len(parsed) : parsed[n].qty # None => parsed[n].qty[1] >= 0
        /\ \A k \in 1..Len(transaction_items) :
              /\ transaction_items[k].qty # None => transaction_items[k].qty[1] >= 0
              /\ Len(rows_of[k]) \in {1, 2}
              /\ Len(rows_of[k]) = 1 => rows_of[k][1].qty[1] >= 0
              /\ Len(rows_of[k]) = 2 =>
                    /\ rows_of[k][2].qty[1] >= 0
                    /\ rows_of[k][1].qty = <<-rows_of[k][2].qty[1], rows_of[k][2].qty[2]>>

\* "- 5 cucumbers to L" was parsed to the pair -5 at the warehouse, 5 at L
C29_Witness ==
    /\ pc = "done"
    /\ Len(lines) = 1 /\ SignedLine(1)
    /\ Len(result.rows) = 2
    /\ result.rows[1].qty = Q(-5) /\ result.rows[1].vehicle_sub_unit = <<"warehouse">>
    /\ result.rows[2].qty = Q(5) /\ result.rows[2].vehicle_sub_unit = <<"L">>

\* the record takes the transfer branch: a location other than the default
\* source and a type outside the non-zero-sum set
TransferRecord(item) ==
    /\ item.location # None
    /\ item.location # DefaultSource
    /\ item.trans_type \notin NonZeroSum

\* C30: the non-zero-sum branch takes precedence over the direction: a record
\* whose type is non-zero-sum and whose location came with the direction
\* 'from' yields exactly one row, with the quantity not negated, at the named
\* location, and no row at the default source; only a transfer record has rows
\* that depend on the direction, every other record has one row whose location
\* is the record's (the default source for a non-zero-sum record without one).
C30_NonZeroSumBeforeDirection ==
    pc = "done" =>
        \A k \in 1..Len(transaction_items) :
            LET it == transaction_items[k]
            IN /\ (it.trans_type \in NonZeroSum /\ it.location # None /\ it.direction = "from") =>
                     /\ Len(rows_of[k]) = 1
                     /\ rows_of[k][1].qty = QtyOf(it)
                     /\ rows_of[k][1].qty[1] >= 0
                     /\ rows_of[k][1].vehicle_sub_unit = it.location
                     /\ it.location # DefaultSource =>
                           \A j \in 1..Len(rows_of[k]) :
                               rows_of[k][j].vehicle_sub_unit # DefaultSource
               /\ ~TransferRecord(it) =>
                     /\ Len(rows_of[k]) = 1
                     /\ rows_of[k][1].vehicle_sub_unit =
                           IF it.location # None THEN it.location
                           ELSE IF it.trans_type \in NonZeroSum THEN DefaultSource
                           ELSE None

\* a record of a non-zero-sum type whose location, not the default source,
\* was given with 'from' has its one row there
C30_Witness ==
    /\ pc = "done"
    /\ \E k \in 1..Len(transaction_items) :
          /\ transaction_items[k].trans_type \in NonZeroSum
          /\ transaction_items[k].direction = "from"
          /\ transaction_items[k].location \notin {None, DefaultSource}
          /\ Len(rows_of[k]) = 1
          /\ rows_of[k][1].qty[1] > 0
          /\ rows_of[k][1].vehicle_sub_unit = transaction_items[k].location

====
